---- MODULE Spec2Model ----
(***************************************************************************)
(* A model of the news backend in src/webapp.py: the database tables the   *)
(* HTTP handlers read and write, the handlers themselves (one step per     *)
(* awaited SQL statement where handlers can interleave), and the           *)
(* auto-notification background task.                                      *)
(*                                                                         *)
(* Columns of the news table that no statement in src/ writes              *)
(* (expires_at, moderation_status, is_duplicate, tone,                     *)
(* ai_classified_topics, media_type) take the defaults and transitions     *)
(* that spec.md gives them.                                                *)
(*                                                                         *)
(* The resolver's statement is modelled by the predicate its text          *)
(* composes, with the placeholders it writes as "$ n" bound to the n-th    *)
(* parameter; the outcome in which the server rejects the statement is the *)
(* separate step GetNewsQueryError.                                        *)
(***************************************************************************)
EXTENDS Integers, Sequences, FiniteSets, Bags, TLC

\* ---------------------------------------------------------------- bounds
MaxReq == 2
MaxNews == 2
MaxTime == 2
MaxLog == 2
MaxFeeds == 1
MaxCalls == 3
MaxInvites == 2
MaxComments == 2
MaxSends == 2

\* ------------------------------------------------------------- constants
DefaultLimit == 10
DefaultTTL == 1
RegisterPremiumDays == 30

\* ---------------------------------------------------------------- values
NULL == "<null>"
NoId == 0
NoTime == -1

TelegramIds == {101, 102}
Reqs == 1..MaxReq

Lower(s) ==
    CASE s = "A" -> "a"
      [] s = "B" -> "b"
      [] s = "F" -> "f"
      [] OTHER -> s

\* the string a LIKE pattern without wildcards matches: a backslash escapes
\* the character after it
Unescape(pattern) == IF pattern = "a\\b" THEN "ab" ELSE pattern

\* x ILIKE pattern: case-insensitive LIKE; "%" matches any string
ILike(x, pattern) ==
    \/ pattern = "%"
    \/ Lower(x) = Lower(Unescape(pattern))

\* Python truthiness of an Optional[str] column value
Truthy(s) == s # NULL /\ s # ""

Range(s) == {s[k] : k \in DOMAIN s}

Min(a, b) == IF a < b THEN a ELSE b

\* ------------------------------------------------------- request payloads
\* NewsAddRequest bodies (title/content/link carry no behaviour)
NewsRequests ==
    { [tags |-> {"tech"},         source |-> "A", lang |-> "uk", country |-> "UA"],
      [tags |-> {"tech", "ai"},   source |-> "B", lang |-> "uk", country |-> "UA"],
      [tags |-> {"NSFW", "photo"}, source |-> "a", lang |-> "en", country |-> "UA"] }

NoFilterFields ==
    [tag |-> NULL, category |-> NULL, source |-> NULL,
     language |-> NULL, country |-> NULL, content_type |-> NULL]

\* FilterUpdateRequest bodies: fields left NULL are absent from the request
FilterRequests ==
    { [NoFilterFields EXCEPT !.tag = "tech"],
      [NoFilterFields EXCEPT !.source = "a"],
      [NoFilterFields EXCEPT !.content_type = "photo"],
      [NoFilterFields EXCEPT !.category = "ai", !.language = "UK"],
      [NoFilterFields EXCEPT !.tag = ""] }

\* UserRegisterRequest optional fields: {} is an absent field, {v} a present one
RegisterRequests ==
    [safe_mode : {{}, {TRUE}, {FALSE}},
     auto_notifications : {{}, {TRUE}},
     current_feed_id : {{}, {1}},
     is_premium : {{}, {TRUE}, {FALSE}},
     email : {{}}]

BlockRequests ==
    { [block_type |-> "tag", value |-> "ai"],
      [block_type |-> "tag", value |-> "NSFW"] }

FeedNames == {"F", "f"}

\* CustomFeedCreateRequest.feed_name: any string
CreateNames == {"F", "a\\b"}

\* CustomFeedCreateRequest.filters: an empty set is a kind that is absent
FeedFilters ==
    { [tags |-> {}, sources |-> {"B"}, languages |-> {}],
      [tags |-> {"ai"}, sources |-> {}, languages |-> {}] }

LogActions == {"view", "read_full", "viewed"}

\* the codes random.choices can draw
InviteCodes == {"c1", "c2"}

\* SubscriptionUpdateRequest.frequency: any string
SubFrequencies == {"hourly", "daily", "weekly", "unsubscribe"}

\* RateRequest.value: any integer
RateValues == {0, 1, 5, 6}

Limits == {1, DefaultLimit}
Offsets == {0, 1}

\* --------------------------------------------------------------- state
VARIABLES
    users,         \* users table: telegram_id -> row
    nextUserId,    \* users.id sequence
    filters,       \* filters table: set of rows
    custom_feeds,  \* custom_feeds table: set of rows
    nextFeedId,    \* custom_feeds.id sequence
    blocks,        \* blocks table: set of rows
    news,          \* news table: sequence of rows, news.id = index
    views,         \* user_news_views table: set of <<users.id, news.id>>
    stats,         \* user_stats table: users.id -> counters
    interactions,  \* interactions table: bag of rows
    now,           \* the clock NOW() reads
    reqs,          \* the HTTP requests in flight, one per slot
    ntf,           \* the auto-notification task
    served,        \* history: pages returned by GET /news holding (user, item)
    sent,          \* history: messages the notifier delivered, per (user, item)
    logged,        \* history: <<telegram_id, news.id, action>> of every 200 of /log_user_activity
    ratings,       \* ratings table: set of rows
    bookmarks,     \* bookmarks table: bag of rows
    invites,       \* invites table: set of rows
    nextInviteId,  \* invites.id sequence
    responses,     \* history: the responses of /rate, /bookmarks/add, /invite/accept
                   \* and /custom_feeds/create, in the order they were sent
    subscriptions, \* subscriptions table: set of rows
    comments,      \* comments table: set of rows
    dupUsers,      \* users table: the rows beyond the first of a telegram_id
    lifecycle,     \* the application: "running", "shutdown" (on_shutdown has
                   \* started), "stopped" (on_shutdown has returned)
    fsm            \* the bot's conversation with one chat: FSM state and data,
                   \* and the news items it has shown since /myfeed

dbVars == <<users, nextUserId, filters, custom_feeds, nextFeedId, blocks,
            news, views, stats, interactions>>
histVars == <<served, sent, logged>>
socialVars == <<ratings, bookmarks, invites, nextInviteId, responses,
                subscriptions, comments, dupUsers, lifecycle, fsm>>
vars == <<users, nextUserId, filters, custom_feeds, nextFeedId, blocks,
          news, views, stats, interactions, now, reqs, ntf, served, sent, logged,
          ratings, bookmarks, invites, nextInviteId, responses,
          subscriptions, comments, dupUsers, lifecycle, fsm>>

NewsIds == 1..Len(news)

Idle ==
    [kind |-> "idle", pc |-> "idle", user_id |-> NoId, uid |-> NoId,
     filt |-> {}, page |-> <<>>, idx |-> 0, limit |-> 0, offset |-> 0,
     news_id |-> NoId, action |-> NULL,
     code |-> NULL, invite_id |-> NoId, inviter |-> NoId, name |-> NULL,
     body |-> {}]

\* the chat the bot's conversations are followed for
ChatUser == 101

FsmIdle ==
    [state |-> "none", feed |-> "off", current_news_offset |-> 0,
     last_sent_news_id |-> NoId, shown |-> <<>>,
     flow |-> "none", handler |-> "none"]

NtfIdle ==
    [pc |-> "sleep", todo |-> <<>>, filt |-> {}, item |-> NoId]

Init ==
    /\ users = <<>>
    /\ nextUserId = 1
    /\ filters = {}
    /\ custom_feeds = {}
    /\ nextFeedId = 1
    /\ blocks = {}
    /\ news = <<>>
    /\ views = {}
    /\ stats = <<>>
    /\ interactions = EmptyBag
    /\ now = 0
    /\ reqs = [r \in Reqs |-> Idle]
    /\ ntf = NtfIdle
    /\ served = [t \in TelegramIds |-> [i \in 1..MaxNews |-> 0]]
    /\ sent = [t \in TelegramIds |-> [i \in 1..MaxNews |-> 0]]
    /\ logged = {}
    /\ ratings = {}
    /\ bookmarks = EmptyBag
    /\ invites = {}
    /\ nextInviteId = 1
    /\ responses = <<>>
    /\ subscriptions = {}
    /\ comments = {}
    /\ dupUsers = {}
    /\ lifecycle = "running"
    /\ fsm = FsmIdle

\* SELECT id FROM users WHERE telegram_id = $1 (NoId when there is no row)
UserInternalId(t) == IF t \in DOMAIN users THEN users[t].id ELSE NoId

\* ------------------------------------------------------------ environment
\* the clock advances
Tick ==
    /\ now < MaxTime
    /\ now' = now + 1
    /\ UNCHANGED <<dbVars, reqs, ntf, histVars, socialVars>>

\* moderation: pending -> approved | rejected, both terminal
Moderate(i, s) ==
    /\ i \in NewsIds
    /\ news[i].moderation_status = "pending"
    /\ s \in {"approved", "rejected"}
    /\ news' = [news EXCEPT ![i].moderation_status = s]
    /\ UNCHANGED <<users, nextUserId, filters, custom_feeds, nextFeedId,
                   blocks, views, stats, interactions, now, reqs, ntf, histVars, socialVars>>

EnrichResults ==
    { [topics |-> {"ai"}, tone |-> "negative", is_duplicate |-> FALSE],
      [topics |-> {},     tone |-> "neutral",  is_duplicate |-> TRUE] }

\* the enrichment worker: writes only columns that are still null
Enrich(i, e) ==
    /\ i \in NewsIds
    /\ news[i].tone = NULL
    /\ e \in EnrichResults
    /\ news' = [news EXCEPT ![i].ai_classified_topics = e.topics,
                            ![i].tone = e.tone,
                            ![i].is_duplicate = e.is_duplicate]
    /\ UNCHANGED <<users, nextUserId, filters, custom_feeds, nextFeedId,
                   blocks, views, stats, interactions, now, reqs, ntf, histVars, socialVars>>

\* column defaults of a news row that the INSERT of /news/add does not name
NewsDefaults(status) ==
    [published_at |-> now, expires_at |-> now + DefaultTTL,
     media_type |-> "none", ai_classified_topics |-> {}, tone |-> NULL,
     is_duplicate |-> FALSE, moderation_status |-> status]

\* ------------------------------------------------------- atomic handlers
\* POST /news/add
add_news_api(req, status) ==
    /\ Len(news) < MaxNews
    /\ status \in {"approved", "pending"}
    /\ news' = Append(news,
                 [tags |-> req.tags, source |-> req.source, lang |-> req.lang,
                  country |-> req.country] @@ NewsDefaults(status))
    /\ UNCHANGED <<users, nextUserId, filters, custom_feeds, nextFeedId,
                   blocks, views, stats, interactions, now, reqs, ntf, histVars, socialVars>>

OptOr(opt, old) == IF opt = {} THEN old ELSE CHOOSE v \in opt : TRUE

\* premium_expires_at as /users/register writes it: now + 30 days with
\* is_premium = true, NULL with is_premium = false, untouched without it
PremiumExpiry(opt, old) ==
    IF opt = {} THEN old
    ELSE IF TRUE \in opt THEN now + RegisterPremiumDays ELSE NoTime

\* the users row after UPDATE users SET <the fields present in req>
UpdatedUserRow(row, req) ==
    [row EXCEPT
       !.safe_mode = OptOr(req.safe_mode, @),
       !.auto_notifications = OptOr(req.auto_notifications, @),
       !.current_feed_id = OptOr(req.current_feed_id, @),
       !.is_premium = OptOr(req.is_premium, @),
       !.premium_expires_at = PremiumExpiry(req.is_premium, @),
       !.email = OptOr(req.email, @)]

\* the users row INSERT INTO users (telegram_id, <the fields present>) makes;
\* the columns the INSERT does not name are null, level is 1
InsertedUserRow(id, req) ==
    [id |-> id,
     safe_mode |-> OptOr(req.safe_mode, FALSE),
     auto_notifications |-> OptOr(req.auto_notifications, FALSE),
     current_feed_id |-> OptOr(req.current_feed_id, NoId),
     is_premium |-> OptOr(req.is_premium, FALSE),
     premium_expires_at |-> PremiumExpiry(req.is_premium, NoTime),
     inviter_id |-> NoId,
     level |-> 1,
     email |-> OptOr(req.email, NULL)]

\* UPDATE users ... WHERE telegram_id = t on the rows beyond the first
UpdatedDupUsers(t, req) ==
    {IF d.telegram_id = t
     THEN [telegram_id |-> t, row |-> UpdatedUserRow(d.row, req)]
     ELSE d : d \in dupUsers}

\* the statements of POST /users/register without interleaving: UPDATE of
\* the fields present, or INSERT
RegisterWrites(t, req) ==
    IF t \in DOMAIN users
    THEN /\ users' = [users EXCEPT ![t] = UpdatedUserRow(users[t], req)]
         /\ dupUsers' = UpdatedDupUsers(t, req)
         /\ UNCHANGED nextUserId
    ELSE /\ users' = (t :> InsertedUserRow(nextUserId, req)) @@ users
         /\ nextUserId' = nextUserId + 1
         /\ UNCHANGED dupUsers

register_user_api(t, req) ==
    /\ RegisterWrites(t, req)
    /\ UNCHANGED <<filters, custom_feeds, nextFeedId, blocks, news, views,
                   stats, interactions, now, reqs, ntf, histVars, ratings,
                   bookmarks, invites, nextInviteId, responses, subscriptions,
                   comments, lifecycle, fsm>>

\* the row an INSERT INTO filters (user_id, field) makes
NewFilterRow(uid, field, value) ==
    [user_id |-> uid] @@ [NoFilterFields EXCEPT ![field] = value]

PlainInsertFilterField(fs, uid, field, value) ==
    fs \cup {NewFilterRow(uid, field, value)}

\* one INSERT ... ON CONFLICT (user_id) DO UPDATE SET field = EXCLUDED.field
UpsertFilterField(fs, uid, field, value) ==
    IF \E x \in fs : x.user_id = uid
    THEN {IF x.user_id = uid THEN [x EXCEPT ![field] = value] ELSE x : x \in fs}
    ELSE fs \cup {NewFilterRow(uid, field, value)}

FilterFieldOrder == <<"tag", "category", "source", "language", "country", "content_type">>

RECURSIVE ApplyFilterRequest(_, _, _, _)
ApplyFilterRequest(fs, uid, req, k) ==
    IF k > Len(FilterFieldOrder) THEN fs
    ELSE LET field == FilterFieldOrder[k]
             fs1 == IF req[field] # NULL
                    THEN UpsertFilterField(fs, uid, field, req[field])
                    ELSE fs
         IN ApplyFilterRequest(fs1, uid, req, k + 1)

\* POST /filters/update (404 for an unknown user writes nothing)
update_filter_api(t, req) ==
    /\ req \in FilterRequests
    /\ filters' = IF UserInternalId(t) = NoId THEN filters
                  ELSE ApplyFilterRequest(filters, UserInternalId(t), req, 1)
    /\ filters' # filters
    /\ UNCHANGED <<users, nextUserId, custom_feeds, nextFeedId, blocks, news,
                   views, stats, interactions, now, reqs, ntf, histVars, socialVars>>

\* DELETE /filters/reset/{user_id}
reset_filters_api(t) ==
    /\ UserInternalId(t) # NoId
    /\ filters' = {x \in filters : x.user_id # UserInternalId(t)}
    /\ filters' # filters
    /\ UNCHANGED <<users, nextUserId, custom_feeds, nextFeedId, blocks, news,
                   views, stats, interactions, now, reqs, ntf, histVars, socialVars>>

\* POST /block: the row keeps the user_id of the request as it came
block_source_api(t, req) ==
    /\ req \in BlockRequests
    /\ blocks' = blocks \cup
          {[user_id |-> t, block_type |-> req.block_type, value |-> req.value]}
    /\ blocks' # blocks
    /\ UNCHANGED <<users, nextUserId, filters, custom_feeds, nextFeedId, news,
                   views, stats, interactions, now, reqs, ntf, histVars, socialVars>>

\* POST /custom_feeds/create: 404, 409 on a name that matches ILIKE, or INSERT
create_custom_feed_api(t, name, ff) ==
    /\ name \in FeedNames
    /\ ff \in FeedFilters
    /\ UserInternalId(t) # NoId
    /\ ~ \E f \in custom_feeds :
           f.user_id = UserInternalId(t) /\ ILike(f.feed_name, name)
    /\ nextFeedId <= MaxFeeds
    /\ custom_feeds' = custom_feeds \cup
          {[id |-> nextFeedId, user_id |-> UserInternalId(t),
            feed_name |-> name, filters |-> ff]}
    /\ nextFeedId' = nextFeedId + 1
    /\ UNCHANGED <<users, nextUserId, filters, blocks, news, views, stats,
                   interactions, now, reqs, ntf, histVars, socialVars>>

\* POST /custom_feeds/switch: 404, 403 for a feed that is not the user's
switch_custom_feed_api(t, feed_id) ==
    /\ UserInternalId(t) # NoId
    /\ \E f \in custom_feeds : f.id = feed_id /\ f.user_id = UserInternalId(t)
    /\ users[t].current_feed_id # feed_id
    /\ users' = [users EXCEPT ![t].current_feed_id = feed_id]
    /\ UNCHANGED <<nextUserId, filters, custom_feeds, nextFeedId, blocks, news,
                   views, stats, interactions, now, reqs, ntf, histVars, socialVars>>

\* one entry of the history of responses
Response(op, user_id, news_id, value, name, status) ==
    [op |-> op, user_id |-> user_id, news_id |-> news_id, value |-> value,
     name |-> name, status |-> status]

FeedWithId(uid, feed_id) ==
    \E f \in custom_feeds : f.id = feed_id

\* SELECT id FROM custom_feeds WHERE id = $1 AND user_id = $2
OwnsFeed(uid, feed_id) ==
    \E f \in custom_feeds : f.id = feed_id /\ f.user_id = uid

\* POST /custom_feeds/switch with its answer: 404 for an unknown user, 403
\* for a feed the SELECT does not find, else the UPDATE and 200
SwitchFeedCall(t, feed_id) ==
    /\ Len(responses) < MaxCalls
    /\ LET uid == UserInternalId(t)
           status == IF uid = NoId THEN 404
                     ELSE IF ~OwnsFeed(uid, feed_id) THEN 403 ELSE 200
       IN /\ users' = IF status = 200
                      THEN [users EXCEPT ![t].current_feed_id = feed_id]
                      ELSE users
          /\ responses' = Append(responses,
                Response("switch", t, NoId, feed_id, "", status))
    /\ UNCHANGED <<nextUserId, filters, custom_feeds, nextFeedId, blocks, news,
                   views, stats, interactions, now, reqs, ntf, histVars,
                   ratings, bookmarks, invites, nextInviteId,
                   subscriptions, comments, dupUsers, lifecycle, fsm>>

\* POST /subscriptions/update: 404 for an unknown user, else INSERT ... ON
\* CONFLICT (user_id) DO UPDATE SET frequency, active; active is false when
\* the frequency sent is "unsubscribe"
update_subscription_api(t, frequency) ==
    /\ frequency \in SubFrequencies
    /\ Len(responses) < MaxCalls
    /\ LET uid == UserInternalId(t)
       IN IF uid = NoId
          THEN /\ UNCHANGED subscriptions
               /\ responses' = Append(responses,
                     Response("sub_update", t, NoId, 0, frequency, 404))
          ELSE /\ subscriptions' =
                     {x \in subscriptions : x.user_id # uid}
                        \cup {[user_id |-> uid, frequency |-> frequency,
                                active |-> (frequency # "unsubscribe")]}
               /\ responses' = Append(responses,
                     Response("sub_update", t, NoId, 0, frequency, 200))
    /\ UNCHANGED <<dbVars, now, reqs, ntf, histVars, ratings, bookmarks,
                   invites, nextInviteId, comments, dupUsers, lifecycle, fsm>>

\* POST /subscriptions/unsubscribe: 404 for an unknown user, else UPDATE
\* subscriptions SET active = FALSE WHERE user_id = $1
unsubscribe_from_digest_api(t) ==
    /\ Len(responses) < MaxCalls
    /\ LET uid == UserInternalId(t)
       IN IF uid = NoId
          THEN /\ UNCHANGED subscriptions
               /\ responses' = Append(responses,
                     Response("unsubscribe", t, NoId, 0, "", 404))
          ELSE /\ subscriptions' =
                     {IF x.user_id = uid THEN [x EXCEPT !.active = FALSE] ELSE x :
                         x \in subscriptions}
               /\ responses' = Append(responses,
                     Response("unsubscribe", t, NoId, 0, "", 200))
    /\ UNCHANGED <<dbVars, now, reqs, ntf, histVars, ratings, bookmarks,
                   invites, nextInviteId, comments, dupUsers, lifecycle, fsm>>

PlainInsertRating(rs, u, n, v) ==
    rs \cup {[user_id |-> u, news_id |-> n, value |-> v]}

\* INSERT INTO ratings ... ON CONFLICT (user_id, news_id) DO UPDATE SET value
UpsertRating(rs, u, n, v) ==
    {x \in rs : ~(x.user_id = u /\ x.news_id = n)}
        \cup {[user_id |-> u, news_id |-> n, value |-> v]}

RatingNotAboveFive(v) == v <= 5

\* if 1 <= req.value <= 5
ValidRating(v) == 1 <= v /\ v <= 5

\* POST /rate: the upsert with the user_id of the request as it came, or the
\* body {"error": "invalid rating"}; both are returned with status 200
save_rating_api(t, n, v) ==
    /\ v \in RateValues
    /\ Len(responses) < MaxCalls
    /\ ratings' = IF ValidRating(v) THEN UpsertRating(ratings, t, n, v)
                  ELSE ratings
    /\ responses' = Append(responses,
          Response("rate", t, n, v,
                   IF ValidRating(v) THEN "rated" ELSE "invalid rating", 200))
    /\ UNCHANGED <<dbVars, now, reqs, ntf, histVars, bookmarks, invites,
                   nextInviteId, subscriptions, comments, dupUsers, lifecycle, fsm>>

\* POST /invite/generate: 404 for an unknown inviter, else a row with a
\* random code; a draw that repeats a code in use is left out
generate_invite_code_api(t, code) ==
    /\ code \in InviteCodes
    /\ UserInternalId(t) # NoId
    /\ nextInviteId <= MaxInvites
    /\ \A v \in invites : v.invite_code # code
    /\ invites' = invites \cup
          {[id |-> nextInviteId, inviter_user_id |-> UserInternalId(t),
            invite_code |-> code, invited_user_id |-> NoId,
            accepted_at |-> NoTime]}
    /\ nextInviteId' = nextInviteId + 1
    /\ UNCHANGED <<dbVars, now, reqs, ntf, histVars, ratings, bookmarks,
                   responses, subscriptions, comments, dupUsers, lifecycle, fsm>>

\* ------------------------------------------------------------ resolver
\* the conditions that one filters row adds to the WHERE clause; fs is the
\* fetched row as a set, empty when the user has no row
FilterConditions(fs, n) ==
    \A f \in fs :
        /\ Truthy(f.tag) => f.tag \in n.tags
        /\ Truthy(f.category) => f.category \in n.tags
        /\ Truthy(f.source) => ILike(n.source, f.source)
        /\ Truthy(f.language) => ILike(n.lang, f.language)
        /\ Truthy(f.country) => ILike(n.country, f.country)
        /\ Truthy(f.content_type) => f.content_type \in n.tags

\* news LEFT JOIN user_news_views ... WHERE uv.news_id IS NULL AND <filters>
Candidates(uid, fs) ==
    {i \in NewsIds : <<uid, i>> \notin views /\ FilterConditions(fs, news[i])}

\* ORDER BY n.published_at DESC: any order of the rows that agrees with
\* published_at; rows with equal published_at come in an unspecified order
OrderedResults(C) ==
    {s \in [1..Cardinality(C) -> C] :
        /\ \A j, k \in DOMAIN s : j # k => s[j] # s[k]
        /\ \A j, k \in DOMAIN s :
              j < k => news[s[j]].published_at >= news[s[k]].published_at}

\* LIMIT limit OFFSET offset
Window(s, limit, offset) == SubSeq(s, offset + 1, Min(Len(s), offset + limit))

\* the pages the statement of GET /news can return in the current state
ResolverPages(uid, fs, limit, offset) ==
    {Window(s, limit, offset) : s \in OrderedResults(Candidates(uid, fs))}

FilterRowSet(uid) == {x \in filters : x.user_id = uid}

\* the counters left as they are
KeepUserStats(st, uid, action) == st

\* update_user_stats: only "viewed", "saved" and "reported" have a branch
update_user_stats(st, uid, action) ==
    LET old == IF uid \in DOMAIN st THEN st[uid]
               ELSE [viewed |-> 0, saved |-> 0, reported |-> 0]
        new == CASE action = "viewed"   -> [old EXCEPT !.viewed = @ + 1]
                 [] action = "saved"    -> [old EXCEPT !.saved = @ + 1]
                 [] action = "reported" -> [old EXCEPT !.reported = @ + 1]
                 [] OTHER -> old
    IN IF action \in {"viewed", "saved", "reported"}
       THEN (uid :> new) @@ st
       ELSE st

PlainInsertBookmark(bs, u, n) ==
    bs (+) SetToBag({[user_id |-> u, news_id |-> n]})

\* INSERT INTO bookmarks ... ON CONFLICT (user_id, news_id) DO NOTHING
InsertBookmark(bs, u, n) ==
    IF BagIn([user_id |-> u, news_id |-> n], bs) THEN bs
    ELSE bs (+) SetToBag({[user_id |-> u, news_id |-> n]})

\* POST /bookmarks/add: 404 for an unknown user, else the INSERT and
\* update_user_stats(conn, uid, "saved")
add_bookmark_api(t, n) ==
    /\ Len(responses) < MaxCalls
    /\ IF UserInternalId(t) = NoId
       THEN /\ UNCHANGED <<bookmarks, stats>>
            /\ responses' = Append(responses,
                  Response("bookmark", t, n, 0, "not found", 404))
       ELSE /\ bookmarks' = InsertBookmark(bookmarks, UserInternalId(t), n)
            /\ stats' = update_user_stats(stats, UserInternalId(t), "saved")
            /\ responses' = Append(responses,
                  Response("bookmark", t, n, 0, "success", 200))
    /\ UNCHANGED <<users, nextUserId, filters, custom_feeds, nextFeedId, blocks,
                   news, views, interactions, now, reqs, ntf, histVars, ratings,
                   invites, nextInviteId, subscriptions, comments, dupUsers, lifecycle, fsm>>

\* ------------------------------------------------------- GET /news/{user_id}
GetNewsCall(r, t, limit, offset) ==
    /\ reqs[r].pc = "idle"
    /\ limit \in Limits /\ offset \in Offsets
    /\ reqs' = [reqs EXCEPT ![r] =
          [Idle EXCEPT !.kind = "get_news", !.pc = "lookup", !.user_id = t,
                       !.limit = limit, !.offset = offset]]
    /\ UNCHANGED <<dbVars, now, ntf, histVars, socialVars>>

\* SELECT id FROM users; an unknown user gets [] at once
GetNewsLookup(r) ==
    /\ reqs[r].kind = "get_news" /\ reqs[r].pc = "lookup"
    /\ LET uid == UserInternalId(reqs[r].user_id)
       IN reqs' = [reqs EXCEPT ![r] =
             IF uid = NoId THEN Idle
             ELSE [reqs[r] EXCEPT !.pc = "filters", !.uid = uid]]
    /\ UNCHANGED <<dbVars, now, ntf, histVars, socialVars>>

\* SELECT ... FROM filters, then the unused SELECT of the viewed ids
GetNewsFilters(r) ==
    /\ reqs[r].kind = "get_news" /\ reqs[r].pc = "filters"
    /\ reqs' = [reqs EXCEPT ![r].filt = FilterRowSet(reqs[r].uid),
                            ![r].pc = "query"]
    /\ UNCHANGED <<dbVars, now, ntf, histVars, socialVars>>

\* the composed SELECT; an empty page is returned at once
GetNewsQuery(r) ==
    /\ reqs[r].kind = "get_news" /\ reqs[r].pc = "query"
    /\ \E p \in ResolverPages(reqs[r].uid, reqs[r].filt,
                              reqs[r].limit, reqs[r].offset) :
          reqs' = [reqs EXCEPT ![r] =
             IF p = <<>> THEN Idle
             ELSE [reqs[r] EXCEPT !.page = p, !.idx = 1, !.pc = "mark"]]
    /\ UNCHANGED <<dbVars, now, ntf, histVars, socialVars>>

\* the statement raises: the handler ends with 500 and writes nothing
GetNewsQueryError(r) ==
    /\ reqs[r].kind = "get_news" /\ reqs[r].pc = "query"
    /\ reqs' = [reqs EXCEPT ![r] = Idle]
    /\ UNCHANGED <<dbVars, now, ntf, histVars, socialVars>>

\* INSERT INTO user_news_views ... ON CONFLICT DO UPDATE for page[idx]
GetNewsMark(r) ==
    /\ reqs[r].kind = "get_news" /\ reqs[r].pc = "mark"
    /\ views' = views \cup {<<reqs[r].uid, reqs[r].page[reqs[r].idx]>>}
    /\ reqs' = [reqs EXCEPT ![r].pc = "stats"]
    /\ UNCHANGED <<users, nextUserId, filters, custom_feeds, nextFeedId,
                   blocks, news, stats, interactions, now, ntf, histVars, socialVars>>

\* update_user_stats(conn, uid, "viewed"); after the last item the page
\* is returned
GetNewsStats(r) ==
    /\ reqs[r].kind = "get_news" /\ reqs[r].pc = "stats"
    /\ stats' = update_user_stats(stats, reqs[r].uid, "viewed")
    /\ IF reqs[r].idx < Len(reqs[r].page)
       THEN /\ reqs' = [reqs EXCEPT ![r].idx = @ + 1, ![r].pc = "mark"]
            /\ UNCHANGED served
       ELSE /\ reqs' = [reqs EXCEPT ![r] = Idle]
            /\ served' = [served EXCEPT ![reqs[r].user_id] =
                  [i \in 1..MaxNews |->
                      IF i \in Range(reqs[r].page) THEN @[i] + 1 ELSE @[i]]]
    /\ UNCHANGED <<users, nextUserId, filters, custom_feeds, nextFeedId,
                   blocks, news, views, interactions, now, ntf, sent, logged, socialVars>>

\* --------------------------------------------------- POST /log_user_activity
LogCall(r, t, i, a) ==
    /\ reqs[r].pc = "idle"
    /\ i \in NewsIds /\ a \in LogActions
    /\ BagCardinality(interactions)
         + Cardinality({q \in Reqs : reqs[q].kind = "log_activity"}) < MaxLog
    /\ reqs' = [reqs EXCEPT ![r] =
          [Idle EXCEPT !.kind = "log_activity", !.pc = "lookup", !.user_id = t,
                       !.news_id = i, !.action = a]]
    /\ UNCHANGED <<dbVars, now, ntf, histVars, socialVars>>

\* SELECT id FROM users; 404 for an unknown user
LogLookup(r) ==
    /\ reqs[r].kind = "log_activity" /\ reqs[r].pc = "lookup"
    /\ LET uid == UserInternalId(reqs[r].user_id)
       IN reqs' = [reqs EXCEPT ![r] =
             IF uid = NoId THEN Idle
             ELSE [reqs[r] EXCEPT !.pc = "insert", !.uid = uid]]
    /\ UNCHANGED <<dbVars, now, ntf, histVars, socialVars>>

\* INSERT INTO interactions (user_id, news_id, action)
LogInsert(r) ==
    /\ reqs[r].kind = "log_activity" /\ reqs[r].pc = "insert"
    /\ interactions' = interactions (+)
          SetToBag({[user_id |-> reqs[r].uid, news_id |-> reqs[r].news_id,
                     action |-> reqs[r].action]})
    /\ reqs' = [reqs EXCEPT ![r].pc = "stats"]
    /\ UNCHANGED <<users, nextUserId, filters, custom_feeds, nextFeedId,
                   blocks, news, views, stats, now, ntf, histVars, socialVars>>

\* update_user_stats(conn, uid, action), then the 200 response
LogStats(r) ==
    /\ reqs[r].kind = "log_activity" /\ reqs[r].pc = "stats"
    /\ stats' = update_user_stats(stats, reqs[r].uid, reqs[r].action)
    /\ reqs' = [reqs EXCEPT ![r] = Idle]
    /\ logged' = logged \cup {<<reqs[r].user_id, reqs[r].news_id, reqs[r].action>>}
    /\ UNCHANGED <<users, nextUserId, filters, custom_feeds, nextFeedId,
                   blocks, news, views, interactions, now, ntf, served, sent, socialVars>>

\* the INSERT raises: the handler ends with 500, nothing is written
LogInsertFail(r) ==
    /\ reqs[r].kind = "log_activity" /\ reqs[r].pc = "insert"
    /\ reqs' = [reqs EXCEPT ![r] = Idle]
    /\ UNCHANGED <<dbVars, now, ntf, histVars, socialVars>>

\* the statement of update_user_stats raises: the exception is caught and
\* logged inside update_user_stats, and the handler returns its 200
LogStatsFail(r) ==
    /\ reqs[r].kind = "log_activity" /\ reqs[r].pc = "stats"
    /\ reqs[r].action \in {"viewed", "saved", "reported"}
    /\ reqs' = [reqs EXCEPT ![r] = Idle]
    /\ logged' = logged \cup {<<reqs[r].user_id, reqs[r].news_id, reqs[r].action>>}
    /\ UNCHANGED <<dbVars, now, ntf, served, sent, socialVars>>

\* --------------------------------------------------------- POST /invite/accept
\* the calls of the recorded handlers that have not answered yet
Unanswered ==
    Cardinality({q \in Reqs :
        reqs[q].kind \in {"accept_invite", "create_feed", "register", "toggle"}})

AcceptCall(r, code, t) ==
    /\ reqs[r].pc = "idle"
    /\ code \in InviteCodes
    /\ Len(responses) + Unanswered < MaxCalls
    /\ reqs' = [reqs EXCEPT ![r] =
          [Idle EXCEPT !.kind = "accept_invite", !.pc = "select",
                       !.user_id = t, !.code = code]]
    /\ UNCHANGED <<dbVars, now, ntf, histVars, socialVars>>

\* SELECT id, inviter_user_id FROM invites WHERE invite_code = $1 AND
\* invited_user_id IS NULL; 400 when there is no such row
AcceptSelect(r) ==
    /\ reqs[r].kind = "accept_invite" /\ reqs[r].pc = "select"
    /\ LET open == {v \in invites : v.invite_code = reqs[r].code
                                    /\ v.invited_user_id = NoId}
       IN IF open = {}
          THEN /\ reqs' = [reqs EXCEPT ![r] = Idle]
               /\ responses' = Append(responses,
                     Response("accept", reqs[r].user_id, NoId, now,
                              reqs[r].code, 400))
          ELSE /\ \E v \in open :
                     reqs' = [reqs EXCEPT ![r].invite_id = v.id,
                                          ![r].inviter = v.inviter_user_id,
                                          ![r].pc = "set_inviter"]
               /\ UNCHANGED responses
    /\ UNCHANGED <<dbVars, now, ntf, histVars, ratings, bookmarks, invites,
                   nextInviteId, subscriptions, comments, dupUsers, lifecycle, fsm>>

\* UPDATE users SET inviter_id = $1 WHERE telegram_id = $2
AcceptSetInviter(r) ==
    /\ reqs[r].kind = "accept_invite" /\ reqs[r].pc = "set_inviter"
    /\ users' = IF reqs[r].user_id \in DOMAIN users
                THEN [users EXCEPT ![reqs[r].user_id].inviter_id = reqs[r].inviter]
                ELSE users
    /\ reqs' = [reqs EXCEPT ![r].pc = "mark"]
    /\ UNCHANGED <<nextUserId, filters, custom_feeds, nextFeedId, blocks, news,
                   views, stats, interactions, now, ntf, histVars, socialVars>>

\* UPDATE invites SET invited_user_id = (SELECT id FROM users WHERE
\* telegram_id = $1), accepted_at = NOW() WHERE id = $2, then the 200
AcceptMark(r) ==
    /\ reqs[r].kind = "accept_invite" /\ reqs[r].pc = "mark"
    /\ invites' = {IF v.id = reqs[r].invite_id
                   THEN [v EXCEPT !.invited_user_id = UserInternalId(reqs[r].user_id),
                                  !.accepted_at = now]
                   ELSE v : v \in invites}
    /\ responses' = Append(responses,
          Response("accept", reqs[r].user_id, NoId, now, reqs[r].code, 200))
    /\ reqs' = [reqs EXCEPT ![r] = Idle]
    /\ UNCHANGED <<dbVars, now, ntf, histVars, ratings, bookmarks, nextInviteId,
                   subscriptions, comments, dupUsers, lifecycle, fsm>>

\* ---------------------------------------------------- POST /custom_feeds/create
FeedCall(r, t, name, ff) ==
    /\ reqs[r].pc = "idle"
    /\ name \in CreateNames /\ ff \in FeedFilters
    /\ Len(responses) + Unanswered < MaxCalls
    /\ reqs' = [reqs EXCEPT ![r] =
          [Idle EXCEPT !.kind = "create_feed", !.pc = "lookup", !.user_id = t,
                       !.name = name, !.filt = {ff}]]
    /\ UNCHANGED <<dbVars, now, ntf, histVars, socialVars>>

\* the response of a finished /custom_feeds/create call
FeedResponse(r, status) ==
    /\ reqs' = [reqs EXCEPT ![r] = Idle]
    /\ responses' = Append(responses,
          Response("create_feed", reqs[r].user_id, NoId, 0, reqs[r].name, status))

\* SELECT id FROM users; 404 for an unknown user
FeedLookup(r) ==
    /\ reqs[r].kind = "create_feed" /\ reqs[r].pc = "lookup"
    /\ IF UserInternalId(reqs[r].user_id) = NoId
       THEN FeedResponse(r, 404)
       ELSE /\ reqs' = [reqs EXCEPT ![r].pc = "check",
                                    ![r].uid = UserInternalId(reqs[r].user_id)]
            /\ UNCHANGED responses
    /\ UNCHANGED <<dbVars, now, ntf, histVars, ratings, bookmarks, invites,
                   nextInviteId, subscriptions, comments, dupUsers, lifecycle, fsm>>

\* SELECT id FROM custom_feeds WHERE user_id = $1 AND feed_name ILIKE $2;
\* 409 when it finds a row
FeedCheck(r) ==
    /\ reqs[r].kind = "create_feed" /\ reqs[r].pc = "check"
    /\ IF \E f \in custom_feeds :
             f.user_id = reqs[r].uid /\ ILike(f.feed_name, reqs[r].name)
       THEN FeedResponse(r, 409)
       ELSE /\ reqs' = [reqs EXCEPT ![r].pc = "insert"]
            /\ UNCHANGED responses
    /\ UNCHANGED <<dbVars, now, ntf, histVars, ratings, bookmarks, invites,
                   nextInviteId, subscriptions, comments, dupUsers, lifecycle, fsm>>

\* INSERT INTO custom_feeds (user_id, feed_name, filters), then the 200
FeedInsert(r) ==
    /\ reqs[r].kind = "create_feed" /\ reqs[r].pc = "insert"
    /\ custom_feeds' = custom_feeds \cup
          {[id |-> nextFeedId, user_id |-> reqs[r].uid,
            feed_name |-> reqs[r].name,
            filters |-> CHOOSE ff \in reqs[r].filt : TRUE]}
    /\ nextFeedId' = nextFeedId + 1
    /\ FeedResponse(r, 200)
    /\ UNCHANGED <<users, nextUserId, filters, blocks, news, views, stats,
                   interactions, now, ntf, histVars, ratings, bookmarks,
                   invites, nextInviteId, subscriptions, comments, dupUsers, lifecycle, fsm>>

\* the INSERT raises on a table that has a unique index on (user_id,
\* feed_name): the handler ends with 500, nothing is written
FeedInsertError(r) ==
    /\ reqs[r].kind = "create_feed" /\ reqs[r].pc = "insert"
    /\ \E f \in custom_feeds :
          f.user_id = reqs[r].uid /\ f.feed_name = reqs[r].name
    /\ FeedResponse(r, 500)
    /\ UNCHANGED <<dbVars, now, ntf, histVars, ratings, bookmarks, invites,
                   nextInviteId, subscriptions, comments, dupUsers, lifecycle, fsm>>

\* ------------------------------------------------------------------ comments
CommentContents == {"hi", "ok"}

\* the value of comments.moderation_status a row gets when the INSERT does not
\* name the column
CommentDefaultStatus == "pending"

\* POST /comments/add
add_comment_api(t, news_id, content) ==
    /\ Len(responses) < MaxCalls
    /\ LET uid == UserInternalId(t)
       IN IF uid = NoId
          THEN /\ UNCHANGED comments
               /\ responses' = Append(responses,
                     Response("comment", t, news_id, 0, content, 404))
          ELSE /\ Cardinality(comments) < MaxComments
               /\ comments' = comments \cup
                     {[id |-> Cardinality(comments) + 1, user_id |-> uid,
                       news_id |-> news_id, content |-> content,
                       moderation_status |-> CommentDefaultStatus,
                       created_at |-> now]}
               /\ responses' = Append(responses,
                     Response("comment", t, news_id, 0, content, 200))
    /\ UNCHANGED <<dbVars, now, reqs, ntf, histVars, ratings, bookmarks,
                   invites, nextInviteId, subscriptions, dupUsers, lifecycle, fsm>>

\* a moderator's decision on a pending comment
ModerateComment(id, status) ==
    /\ status \in {"approved", "rejected"}
    /\ \E c \in comments :
          /\ c.id = id
          /\ c.moderation_status = "pending"
          /\ comments' = (comments \ {c}) \cup
                {[c EXCEPT !.moderation_status = status]}
    /\ UNCHANGED <<dbVars, now, reqs, ntf, histVars, ratings, bookmarks,
                   invites, nextInviteId, responses, subscriptions, dupUsers, lifecycle, fsm>>

\* WHERE c.news_id = $1, without the status condition
AllComments(coms, news_id) == {c \in coms : c.news_id = news_id}

\* WHERE c.news_id = $1 AND c.moderation_status = 'approved'; the JOIN keeps
\* the rows whose author has a users row
ApprovedComments(coms, news_id) ==
    {c \in coms : /\ c.news_id = news_id
                  /\ c.moderation_status = "approved"
                  /\ \E t \in DOMAIN users : users[t].id = c.user_id}

\* ORDER BY c.created_at ASC: the orders the statement may return rows in
CommentOrders(rows) ==
    {o \in [1..Cardinality(rows) -> rows] :
        /\ \A i, j \in DOMAIN o : i # j => o[i] # o[j]
        /\ \A i, j \in DOMAIN o : i < j => o[i].created_at <= o[j].created_at}

TelegramIdOf(uid) == CHOOSE t \in DOMAIN users : users[t].id = uid

\* GET /comments/{news_id}: the answers the handler may give
get_comments_api(coms, news_id) ==
    {[i \in DOMAIN o |-> [content |-> o[i].content,
                          user_telegram_id |-> TelegramIdOf(o[i].user_id),
                          id |-> o[i].id]] :
        o \in CommentOrders(ApprovedComments(coms, news_id))}

\* ------------------------------------------------------ POST /users/register
\* the handler statement by statement
RegCall(r, t, req) ==
    /\ reqs[r].pc = "idle"
    /\ req \in RegisterRequests
    /\ Len(responses) + Unanswered < MaxCalls
    /\ reqs' = [reqs EXCEPT ![r] =
          [Idle EXCEPT !.kind = "register", !.pc = "select", !.user_id = t,
                       !.body = {req}]]
    /\ UNCHANGED <<dbVars, now, ntf, histVars, socialVars>>

RegBody(r) == CHOOSE req \in reqs[r].body : TRUE

\* the response of a finished /users/register call
RegResponse(r, status) ==
    /\ reqs' = [reqs EXCEPT ![r] = Idle]
    /\ responses' = Append(responses,
          Response("register", reqs[r].user_id, NoId, now, "", status))

\* SELECT id FROM users WHERE telegram_id = $1
RegSelect(r) ==
    /\ reqs[r].kind = "register" /\ reqs[r].pc = "select"
    /\ LET uid == UserInternalId(reqs[r].user_id)
       IN reqs' = [reqs EXCEPT ![r].uid = uid,
                               ![r].pc = IF uid # NoId THEN "update" ELSE "insert"]
    /\ UNCHANGED <<dbVars, now, ntf, histVars, socialVars>>

\* if user_internal_id: UPDATE users SET ... WHERE telegram_id, when the
\* request names a field; 200 either way
RegUpdate(r) ==
    /\ reqs[r].kind = "register" /\ reqs[r].pc = "update"
    /\ users' = [users EXCEPT ![reqs[r].user_id] = UpdatedUserRow(@, RegBody(r))]
    /\ dupUsers' = UpdatedDupUsers(reqs[r].user_id, RegBody(r))
    /\ RegResponse(r, 200)
    /\ UNCHANGED <<nextUserId, filters, custom_feeds, nextFeedId, blocks, news,
                   views, stats, interactions, now, ntf, histVars, ratings,
                   bookmarks, invites, nextInviteId, subscriptions, comments, lifecycle, fsm>>

\* else: INSERT INTO users ... RETURNING id, no row with the telegram_id yet
RegInsert(r) ==
    /\ reqs[r].kind = "register" /\ reqs[r].pc = "insert"
    /\ reqs[r].user_id \notin DOMAIN users
    /\ users' = (reqs[r].user_id :> InsertedUserRow(nextUserId, RegBody(r))) @@ users
    /\ nextUserId' = nextUserId + 1
    /\ RegResponse(r, 200)
    /\ UNCHANGED <<filters, custom_feeds, nextFeedId, blocks, news, views, stats,
                   interactions, now, ntf, histVars, ratings, bookmarks, invites,
                   nextInviteId, subscriptions, comments, dupUsers, lifecycle, fsm>>

\* the INSERT when a row with the telegram_id has appeared since the SELECT,
\* on a table without a unique index on telegram_id: a second row
RegInsertDuplicate(r) ==
    /\ reqs[r].kind = "register" /\ reqs[r].pc = "insert"
    /\ reqs[r].user_id \in DOMAIN users
    /\ dupUsers' = dupUsers \cup
          {[telegram_id |-> reqs[r].user_id,
            row |-> InsertedUserRow(nextUserId, RegBody(r))]}
    /\ nextUserId' = nextUserId + 1
    /\ RegResponse(r, 200)
    /\ UNCHANGED <<users, filters, custom_feeds, nextFeedId, blocks, news, views,
                   stats, interactions, now, ntf, histVars, ratings, bookmarks,
                   invites, nextInviteId, subscriptions, comments, lifecycle, fsm>>

\* the same INSERT on a table with the unique index: the statement raises,
\* the handler ends with 500; the id the sequence gave is spent
RegInsertError(r) ==
    /\ reqs[r].kind = "register" /\ reqs[r].pc = "insert"
    /\ reqs[r].user_id \in DOMAIN users
    /\ nextUserId' = nextUserId + 1
    /\ RegResponse(r, 500)
    /\ UNCHANGED <<users, filters, custom_feeds, nextFeedId, blocks, news, views,
                   stats, interactions, now, ntf, histVars, ratings, bookmarks,
                   invites, nextInviteId, subscriptions, comments, dupUsers, lifecycle, fsm>>

\* ------------------------------------------------ send_auto_notifications_task
\* SELECT ... FROM users WHERE auto_notifications = TRUE, in any row order
NtfFetchUsers ==
    /\ ntf.pc = "sleep"
    /\ LET U == {t \in DOMAIN users : users[t].auto_notifications}
       IN \E todo \in {s \in [1..Cardinality(U) -> U] :
                          \A j, k \in DOMAIN s : j # k => s[j] # s[k]} :
             ntf' = IF todo = <<>> THEN NtfIdle
                    ELSE [NtfIdle EXCEPT !.pc = "filters", !.todo = todo]
    /\ ntf' # ntf
    /\ UNCHANGED <<dbVars, now, reqs, histVars, socialVars>>

\* the task moves to the next user of the cycle, or sleeps after the last
NtfNextUser ==
    IF Len(ntf.todo) > 1
    THEN [NtfIdle EXCEPT !.pc = "filters", !.todo = Tail(ntf.todo)]
    ELSE NtfIdle

NtfUser == ntf.todo[1]

\* SELECT ... FROM filters WHERE user_id = $1
NtfFilters ==
    /\ ntf.pc = "filters"
    /\ ntf' = [ntf EXCEPT !.filt = FilterRowSet(users[NtfUser].id),
                          !.pc = "query"]
    /\ UNCHANGED <<dbVars, now, reqs, histVars, socialVars>>

\* the composed SELECT with LIMIT 1
NtfQuery ==
    /\ ntf.pc = "query"
    /\ \E p \in ResolverPages(users[NtfUser].id, ntf.filt, 1, 0) :
          ntf' = IF p = <<>> THEN NtfNextUser
                 ELSE [ntf EXCEPT !.item = p[1], !.pc = "send"]
    /\ UNCHANGED <<dbVars, now, reqs, histVars, socialVars>>

\* bot.send_message succeeds
NtfSendOk ==
    /\ ntf.pc = "send"
    /\ sent' = [sent EXCEPT ![NtfUser][ntf.item] = @ + 1]
    /\ ntf' = [ntf EXCEPT !.pc = "mark"]
    /\ UNCHANGED <<dbVars, now, reqs, served, logged, socialVars>>

\* bot.send_message raises: logged, nothing is marked
NtfSendFail ==
    /\ ntf.pc = "send"
    /\ ntf' = NtfNextUser
    /\ UNCHANGED <<dbVars, now, reqs, histVars, socialVars>>

\* INSERT INTO user_news_views ... ON CONFLICT DO UPDATE
NtfMark ==
    /\ ntf.pc = "mark"
    /\ views' = views \cup {<<users[NtfUser].id, ntf.item>>}
    /\ ntf' = [ntf EXCEPT !.pc = "stats"]
    /\ UNCHANGED <<users, nextUserId, filters, custom_feeds, nextFeedId,
                   blocks, news, stats, interactions, now, reqs, histVars, socialVars>>

\* update_user_stats(conn, uid, "viewed")
NtfStats ==
    /\ ntf.pc = "stats"
    /\ stats' = update_user_stats(stats, users[NtfUser].id, "viewed")
    /\ ntf' = NtfNextUser
    /\ UNCHANGED <<users, nextUserId, filters, custom_feeds, nextFeedId,
                   blocks, news, views, interactions, now, reqs, histVars, socialVars>>

\* the composed SELECT has a filter condition, written with a "$ n"
\* placeholder
NtfHasConditions ==
    \E f \in ntf.filt :
        \/ Truthy(f.tag) \/ Truthy(f.category) \/ Truthy(f.source)
        \/ Truthy(f.language) \/ Truthy(f.country) \/ Truthy(f.content_type)

\* the composed SELECT raises: the outer except logs it, the cycle ends
\* without the users that were left
NtfQueryError ==
    /\ ntf.pc = "query"
    /\ NtfHasConditions
    /\ ntf' = NtfIdle
    /\ UNCHANGED <<dbVars, now, reqs, histVars, socialVars>>

\* the SELECT ... FROM filters raises (the connection is lost): the outer
\* except logs it, the cycle ends without the users that were left
NtfFiltersFail ==
    /\ ntf.pc = "filters"
    /\ ntf' = NtfIdle
    /\ UNCHANGED <<dbVars, now, reqs, histVars, socialVars>>

\* the INSERT INTO user_news_views after a send raises: the inner except
\* logs it, nothing is marked, the task goes on with the next user
NtfMarkFail ==
    /\ ntf.pc = "mark"
    /\ sent[NtfUser][ntf.item] < MaxSends
    /\ ntf' = NtfNextUser
    /\ UNCHANGED <<dbVars, now, reqs, histVars, socialVars>>

\* update_user_stats raises after the view was written
NtfStatsFail ==
    /\ ntf.pc = "stats"
    /\ ntf' = NtfNextUser
    /\ UNCHANGED <<dbVars, now, reqs, histVars, socialVars>>

\* ------------------------------------------------------- specifications
GetNewsStep(r) ==
    \/ GetNewsLookup(r) \/ GetNewsFilters(r) \/ GetNewsQuery(r)
    \/ GetNewsQueryError(r) \/ GetNewsMark(r) \/ GetNewsStats(r)

LogStep(r) == LogLookup(r) \/ LogInsert(r) \/ LogStats(r)

LogFailStep(r) == LogInsertFail(r) \/ LogStatsFail(r)

AcceptStep(r) == AcceptSelect(r) \/ AcceptSetInviter(r) \/ AcceptMark(r)

RegStep(r) ==
    \/ RegSelect(r) \/ RegUpdate(r) \/ RegInsert(r) \/ RegInsertDuplicate(r)
    \/ RegInsertError(r)

FeedStep(r) ==
    FeedLookup(r) \/ FeedCheck(r) \/ FeedInsert(r) \/ FeedInsertError(r)

NtfStep ==
    \/ NtfFetchUsers \/ NtfFilters \/ NtfQuery \/ NtfSendOk \/ NtfSendFail
    \/ NtfMark \/ NtfStats

\* ------------------------------------------------------- the bot: /myfeed
\* POST /log_user_activity of the bot for item i: the interactions row, the
\* counters (no branch for "view" or "skip") and the 200
LoggedInteractions(ints, uid, posts) ==
    ints (+) SetToBag({[user_id |-> uid, news_id |-> q[1], action |-> q[2]] :
                          q \in posts})

\* the sender of a message the bot itself sent (callback_query.message): the
\* bot's own account, which has no users row
BotUser == 999

\* send_news_item(msg): GET /news/{msg.from_user.id}?limit=1&offset=<offset>
\* and, for a page with an item, the two messages, last_sent_news_id and the
\* "view" log; an empty page ends the conversation (state.finish() drops the
\* data). posts are the log calls the caller makes after it for the chat's
\* user.
send_news_item(from_user, offset, posts) ==
    LET uid == UserInternalId(from_user)
        chat == UserInternalId(ChatUser)
        done == IF chat = NoId THEN {} ELSE posts
        ended == [FsmIdle EXCEPT !.feed = "ended", !.shown = fsm.shown]
    IN IF uid = NoId
       THEN /\ fsm' = ended
            /\ interactions' = LoggedInteractions(interactions, chat, done)
            /\ logged' = logged \cup {<<ChatUser, q[1], q[2]>> : q \in done}
            /\ UNCHANGED <<views, stats, served>>
       ELSE \E p \in ResolverPages(uid, FilterRowSet(uid), 1, offset) :
              IF p = <<>>
              THEN /\ fsm' = ended
                   /\ interactions' = LoggedInteractions(interactions, chat, done)
                   /\ logged' = logged \cup {<<ChatUser, q[1], q[2]>> : q \in done}
                   /\ UNCHANGED <<views, stats, served>>
              ELSE /\ views' = views \cup {<<uid, p[1]>>}
                   /\ stats' = update_user_stats(
                                  update_user_stats(stats, uid, "viewed"), uid, "view")
                   /\ served' = [served EXCEPT ![from_user][p[1]] = @ + 1]
                   /\ interactions' = LoggedInteractions(
                          LoggedInteractions(interactions, uid, {<<p[1], "view">>}),
                          chat, done)
                   /\ logged' = logged \cup {<<from_user, p[1], "view">>}
                                   \cup {<<ChatUser, q[1], q[2]>> : q \in done}
                   /\ fsm' = [fsm EXCEPT !.feed = "browsing",
                                         !.current_news_offset = offset,
                                         !.last_sent_news_id = p[1],
                                         !.shown = Append(@, p[1])]

\* /myfeed: current_news_offset = 0, then send_news_item(msg)
my_feed_start ==
    /\ fsm.feed = "off"
    /\ send_news_item(ChatUser, 0, {})
    /\ UNCHANGED <<users, nextUserId, filters, custom_feeds, nextFeedId, blocks,
                   news, now, reqs, ntf, sent, ratings, bookmarks, invites,
                   nextInviteId, responses, subscriptions, comments, dupUsers,
                   lifecycle>>

\* the "next" button: current_news_offset + 1, send_news_item with the
\* message the button hangs on, then the "skip" log for the item shown before
process_news_navigation ==
    /\ fsm.feed = "browsing"
    /\ send_news_item(BotUser, fsm.current_news_offset + 1,
                      {<<fsm.last_sent_news_id, "skip">>})
    /\ UNCHANGED <<users, nextUserId, filters, custom_feeds, nextFeedId, blocks,
                   news, now, reqs, ntf, sent, ratings, bookmarks, invites,
                   nextInviteId, responses, subscriptions, comments, dupUsers,
                   lifecycle>>

\* GET /news answers 500 (its statement was rejected): the bot reports the
\* failure and ends the conversation
SendNewsItemFail ==
    /\ fsm.feed = "off"
    /\ UserInternalId(ChatUser) # NoId
    /\ fsm' = [FsmIdle EXCEPT !.feed = "failed", !.shown = fsm.shown]
    /\ UNCHANGED <<dbVars, now, reqs, ntf, histVars, ratings, bookmarks, invites,
                   nextInviteId, responses, subscriptions, comments, dupUsers,
                   lifecycle>>

\* ------------------------------------------- the bot: message handlers
\* the state-filtered message handlers in the order register_telegram_handlers
\* registers them; "*" is a handler without a state filter
FsmHandlers ==
    << [handler |-> "process_headline_rewrite_handler", state |-> "waiting_for_title"],
       [handler |-> "process_news_title_handler", state |-> "waiting_for_title"],
       [handler |-> "process_news_content_handler", state |-> "waiting_for_content"],
       [handler |-> "process_news_lang_handler", state |-> "waiting_for_lang"],
       [handler |-> "process_news_country_handler", state |-> "waiting_for_country"],
       [handler |-> "process_news_tags_handler", state |-> "waiting_for_tags"],
       [handler |-> "process_news_source_name_handler", state |-> "waiting_for_source_name"],
       [handler |-> "process_news_link_handler", state |-> "waiting_for_link"],
       [handler |-> "process_news_media_handler", state |-> "waiting_for_media"],
       [handler |-> "unknown_message_handler", state |-> "*"] >>

\* the dispatcher gives a message to the first registered handler whose
\* filters pass
HandlerFor(state) ==
    LET ok == {k \in DOMAIN FsmHandlers : FsmHandlers[k].state \in {state, "*"}}
    IN FsmHandlers[CHOOSE k \in ok : \A j \in ok : k <= j].handler

\* the FSM state a handler leaves the conversation in
StateAfter(handler, state) ==
    CASE handler = "process_headline_rewrite_handler" -> "none"
      [] handler = "process_news_title_handler" -> "waiting_for_content"
      [] handler = "process_news_content_handler" -> "waiting_for_lang"
      [] handler = "process_news_lang_handler" -> "waiting_for_country"
      [] handler = "process_news_country_handler" -> "waiting_for_tags"
      [] handler = "process_news_tags_handler" -> "waiting_for_source_name"
      [] handler = "process_news_source_name_handler" -> "waiting_for_link"
      [] handler = "process_news_link_handler" -> "waiting_for_media"
      [] handler = "process_news_media_handler" -> "none"
      [] OTHER -> state

\* the menu button "add news": asks for the title
add_news_admin_start_handler ==
    /\ fsm' = [fsm EXCEPT !.state = "waiting_for_title", !.flow = "add_news",
                          !.handler = "add_news_admin_start_handler"]
    /\ fsm' # fsm
    /\ UNCHANGED <<dbVars, now, reqs, ntf, histVars, ratings, bookmarks, invites,
                   nextInviteId, responses, subscriptions, comments, dupUsers,
                   lifecycle>>

\* the menu button "rewrite headline": asks for a headline, in the same state
rewrite_headline_start_handler ==
    /\ fsm' = [fsm EXCEPT !.state = "waiting_for_title", !.flow = "rewrite",
                          !.handler = "rewrite_headline_start_handler"]
    /\ fsm' # fsm
    /\ UNCHANGED <<dbVars, now, reqs, ntf, histVars, ratings, bookmarks, invites,
                   nextInviteId, responses, subscriptions, comments, dupUsers,
                   lifecycle>>

\* a text message that is no menu button: the handler the dispatcher picks
\* runs; process_news_media_handler posts the collected data to /news/add
TextMessage(req) ==
    /\ fsm' = [fsm EXCEPT
          !.state = StateAfter(HandlerFor(fsm.state), fsm.state),
          !.handler = HandlerFor(fsm.state),
          !.flow = IF StateAfter(HandlerFor(fsm.state), fsm.state) = "none"
                   THEN "none" ELSE @]
    /\ fsm' # fsm
    /\ IF HandlerFor(fsm.state) = "process_news_media_handler" /\ Len(news) < MaxNews
       THEN news' = Append(news,
              [tags |-> req.tags, source |-> req.source, lang |-> req.lang,
               country |-> req.country] @@ NewsDefaults("pending"))
       ELSE UNCHANGED news
    /\ UNCHANGED <<users, nextUserId, filters, custom_feeds, nextFeedId,
                   blocks, views, stats, interactions, now, reqs, ntf, histVars,
                   ratings, bookmarks, invites, nextInviteId, responses,
                   subscriptions, comments, dupUsers, lifecycle>>

\* ------------------------------------------------------------- on_shutdown
\* the shutdown event: the handler starts (delete_webhook, storage.close,
\* session.close are awaited); it holds no reference to the notifier task
on_shutdown ==
    /\ lifecycle = "running"
    /\ lifecycle' = "shutdown"
    /\ UNCHANGED <<dbVars, now, reqs, ntf, histVars, ratings, bookmarks,
                   invites, nextInviteId, responses, subscriptions, comments,
                   dupUsers, fsm>>

\* the handler's awaits are done and it returns; the server closes the
\* event loop, which ends the notifier task wherever it is
OnShutdownDone ==
    /\ lifecycle = "shutdown"
    /\ lifecycle' = "stopped"
    /\ ntf' = [NtfIdle EXCEPT !.pc = "cancelled"]
    /\ UNCHANGED <<dbVars, now, reqs, histVars, ratings, bookmarks,
                   invites, nextInviteId, responses, subscriptions, comments,
                   dupUsers, fsm>>

\* ------------------------------------------------- email subscription menu
\* a field of a JSON body that the body does not carry
JsonAbsent == "<absent>"

\* UserRegisterRequest(**body) for a field declared Optional[...] = None:
\* the field is None when the body omits it and when the body carries null
ParseOptional(v) == IF v \in {JsonAbsent, NULL} THEN {} ELSE {v}

\* the request /users/register sees for the body {"user_id": t, "email": e}
EmailRegisterRequest(e) ==
    [safe_mode |-> {}, auto_notifications |-> {}, current_feed_id |-> {},
     is_premium |-> {}, email |-> ParseOptional(e)]

\* the texts a user types as an address
EmailTexts == {"a@b.c", "x@y.z", "ab"}

CharsOf(text) ==
    CASE text = "a@b.c" -> {"a", "@", "b", ".", "c"}
      [] text = "x@y.z" -> {"x", "@", "y", ".", "z"}
      [] OTHER -> {"a", "b"}

\* callbacks add_email / change_email: ask for the address
request_email_input_callback ==
    /\ fsm.state # "waiting_for_email"
    /\ fsm' = [fsm EXCEPT !.state = "waiting_for_email",
                          !.handler = "request_email_input_callback"]
    /\ UNCHANGED <<dbVars, now, reqs, ntf, histVars, ratings, bookmarks,
                   invites, nextInviteId, responses, subscriptions, comments,
                   dupUsers, lifecycle>>

\* a text in waiting_for_email: a text without "@" or "." is refused and the
\* state kept, else the address is posted to /users/register
process_email_input_handler(text) ==
    /\ fsm.state = "waiting_for_email"
    /\ Len(responses) < MaxCalls
    /\ IF "@" \notin CharsOf(text) \/ "." \notin CharsOf(text)
       THEN /\ UNCHANGED <<users, dupUsers, nextUserId>>
            /\ fsm' = [fsm EXCEPT !.handler = "process_email_input_handler"]
            /\ responses' = Append(responses,
                  Response("email_input", ChatUser, 0, 0, text, 0))
       ELSE /\ RegisterWrites(ChatUser, EmailRegisterRequest(text))
            /\ fsm' = [fsm EXCEPT !.state = "none",
                                  !.handler = "process_email_input_handler"]
            /\ responses' = Append(responses,
                  Response("email_input", ChatUser, 0, 0, text, 200))
    /\ UNCHANGED <<filters, custom_feeds, nextFeedId, blocks, news, views,
                   stats, interactions, now, reqs, ntf, histVars, ratings,
                   bookmarks, invites, nextInviteId, subscriptions, comments,
                   lifecycle>>

\* callback unsubscribe_email: posts {"user_id": t, "email": null} to
\* /users/register and answers with the success text on a 200
unsubscribe_email_callback ==
    /\ Len(responses) < MaxCalls
    /\ RegisterWrites(ChatUser, EmailRegisterRequest(NULL))
    /\ fsm' = [fsm EXCEPT !.state = "none",
                          !.handler = "unsubscribe_email_callback"]
    /\ responses' = Append(responses,
          Response("unsubscribe_email", ChatUser, 0, 0, "success", 200))
    /\ UNCHANGED <<filters, custom_feeds, nextFeedId, blocks, news, views,
                   stats, interactions, now, reqs, ntf, histVars, ratings,
                   bookmarks, invites, nextInviteId, subscriptions, comments,
                   lifecycle>>

\* ------------------------------------------------------ safe-mode toggle
\* the button "Безпечний режим": the handler starts
ToggleCall(r, t) ==
    /\ reqs[r].pc = "idle"
    /\ Len(responses) + Unanswered < MaxCalls
    /\ reqs' = [reqs EXCEPT ![r] =
          [Idle EXCEPT !.kind = "toggle", !.pc = "profile", !.user_id = t]]
    /\ UNCHANGED <<dbVars, now, ntf, histVars, socialVars>>

\* GET /users/{user_id}/profile: 404 for an unknown user ends the handler,
\* else new_safe_mode = not profile.get('safe_mode', False)
ToggleProfile(r) ==
    /\ reqs[r].kind = "toggle" /\ reqs[r].pc = "profile"
    /\ IF reqs[r].user_id \in DOMAIN users
       THEN /\ reqs' = [reqs EXCEPT
                  ![r].pc = "register",
                  ![r].body = {[safe_mode |-> {~users[reqs[r].user_id].safe_mode},
                                auto_notifications |-> {}, current_feed_id |-> {},
                                is_premium |-> {}, email |-> {}]}]
            /\ UNCHANGED responses
       ELSE /\ reqs' = [reqs EXCEPT ![r] = Idle]
            /\ responses' = Append(responses,
                  Response("toggle", reqs[r].user_id, NoId, now, "", 404))
    /\ UNCHANGED <<dbVars, now, ntf, histVars, ratings, bookmarks, invites,
                   nextInviteId, subscriptions, comments, dupUsers, lifecycle,
                   fsm>>

\* POST /users/register {"user_id", "safe_mode": new_safe_mode} and the
\* answer to the user
ToggleRegister(r) ==
    /\ reqs[r].kind = "toggle" /\ reqs[r].pc = "register"
    /\ RegisterWrites(reqs[r].user_id, RegBody(r))
    /\ reqs' = [reqs EXCEPT ![r] = Idle]
    /\ responses' = Append(responses,
          Response("toggle", reqs[r].user_id, NoId, now, "", 200))
    /\ UNCHANGED <<filters, custom_feeds, nextFeedId, blocks, news, views,
                   stats, interactions, now, ntf, histVars, ratings, bookmarks,
                   invites, nextInviteId, subscriptions, comments, lifecycle,
                   fsm>>

ToggleStep(r) == ToggleProfile(r) \/ ToggleRegister(r)

NtfFailStep == NtfQueryError \/ NtfMarkFail \/ NtfStatsFail

\* every operation, with every payload
Next ==
    \/ Tick
    \/ \E i \in NewsIds, st \in {"approved", "rejected"} : Moderate(i, st)
    \/ \E i \in NewsIds, e \in EnrichResults : Enrich(i, e)
    \/ \E req \in NewsRequests, st \in {"approved", "pending"} : add_news_api(req, st)
    \/ \E t \in TelegramIds, req \in RegisterRequests : register_user_api(t, req)
    \/ \E t \in TelegramIds, req \in FilterRequests : update_filter_api(t, req)
    \/ \E t \in TelegramIds : reset_filters_api(t)
    \/ \E t \in TelegramIds, req \in BlockRequests : block_source_api(t, req)
    \/ \E t \in TelegramIds, name \in FeedNames, ff \in FeedFilters :
          create_custom_feed_api(t, name, ff)
    \/ \E t \in TelegramIds, f \in 1..MaxFeeds : switch_custom_feed_api(t, f)
    \/ \E r \in Reqs, t \in TelegramIds, l \in Limits, o \in Offsets :
          GetNewsCall(r, t, l, o)
    \/ \E r \in Reqs : GetNewsStep(r)
    \/ \E r \in Reqs, t \in TelegramIds, i \in NewsIds, a \in LogActions :
          LogCall(r, t, i, a)
    \/ \E r \in Reqs : LogStep(r)
    \/ \E r \in Reqs : LogFailStep(r)
    \/ NtfStep
    \/ \E t \in TelegramIds, n \in 1..MaxNews, v \in RateValues : save_rating_api(t, n, v)
    \/ \E t \in TelegramIds, c \in InviteCodes : generate_invite_code_api(t, c)
    \/ \E r \in Reqs, c \in InviteCodes, t \in TelegramIds : AcceptCall(r, c, t)
    \/ \E r \in Reqs : AcceptStep(r)
    \/ \E t \in TelegramIds, n \in 1..MaxNews : add_bookmark_api(t, n)
    \/ \E r \in Reqs, t \in TelegramIds, name \in CreateNames, ff \in FeedFilters :
          FeedCall(r, t, name, ff)
    \/ \E r \in Reqs : FeedStep(r)
    \/ \E t \in TelegramIds, f \in 1..(MaxFeeds + 1) : SwitchFeedCall(t, f)
    \/ \E t \in TelegramIds, f \in SubFrequencies : update_subscription_api(t, f)
    \/ \E t \in TelegramIds : unsubscribe_from_digest_api(t)
    \/ \E r \in Reqs, t \in TelegramIds, req \in RegisterRequests : RegCall(r, t, req)
    \/ \E r \in Reqs : RegStep(r)
    \/ NtfFailStep
    \/ NtfFiltersFail
    \/ on_shutdown
    \/ OnShutdownDone
    \/ my_feed_start
    \/ process_news_navigation
    \/ SendNewsItemFail
    \/ add_news_admin_start_handler
    \/ rewrite_headline_start_handler
    \/ \E req \in NewsRequests : TextMessage(req)
    \/ request_email_input_callback
    \/ \E text \in EmailTexts : process_email_input_handler(text)
    \/ unsubscribe_email_callback
    \/ \E r \in Reqs, t \in TelegramIds : ToggleCall(r, t)
    \/ \E r \in Reqs : ToggleStep(r)
    \/ \E t \in TelegramIds, i \in 1..MaxNews, c \in CommentContents :
          add_comment_api(t, i, c)
    \/ \E i \in 1..MaxComments, s \in {"approved", "rejected"} : ModerateComment(i, s)

Spec == Init /\ [][Next]_vars

\* The specifications below are Spec restricted to the operations and the
\* payloads a group of properties is about.

PlainRegister ==
    [safe_mode |-> {}, auto_notifications |-> {}, current_feed_id |-> {},
     is_premium |-> {}, email |-> {}]

\* concurrent GET /news calls
NextRace ==
    \/ \E t \in TelegramIds : register_user_api(t, PlainRegister)
    \/ \E req \in {q \in NewsRequests : q.source = "A"} : add_news_api(req, "approved")
    \/ \E r \in Reqs, t \in TelegramIds, l \in Limits : GetNewsCall(r, t, l, 0)
    \/ \E r \in Reqs : GetNewsStep(r)

SpecRace == Init /\ [][NextRace]_vars

\* freshness and ordering: the clock, GET /news and the notifier
NextTime ==
    \/ Tick
    \/ \E a \in {{}, {TRUE}} :
          register_user_api(101, [PlainRegister EXCEPT !.auto_notifications = a])
    \/ \E req \in {q \in NewsRequests : q.source = "A"} : add_news_api(req, "approved")
    \/ \E l \in Limits, o \in Offsets : GetNewsCall(1, 101, l, o)
    \/ GetNewsStep(1)
    \/ NtfStep

SpecTime == Init /\ [][NextTime]_vars

\* safe mode, moderation and enrichment
NextEnrich ==
    \/ \E s \in {{}, {TRUE}, {FALSE}} :
          register_user_api(101, [PlainRegister EXCEPT !.safe_mode = s])
    \/ \E req \in NewsRequests, st \in {"approved", "pending"} : add_news_api(req, st)
    \/ \E i \in NewsIds, st \in {"approved", "rejected"} : Moderate(i, st)
    \/ \E i \in NewsIds, e \in EnrichResults : Enrich(i, e)
    \/ \E l \in Limits : GetNewsCall(1, 101, l, 0)
    \/ GetNewsStep(1)

SpecEnrich == Init /\ [][NextEnrich]_vars

\* the filters row
NextFilter ==
    \/ register_user_api(101, PlainRegister)
    \/ \E req \in NewsRequests : add_news_api(req, "approved")
    \/ \E req \in FilterRequests : update_filter_api(101, req)
    \/ reset_filters_api(101)
    \/ GetNewsCall(1, 101, DefaultLimit, 0)
    \/ GetNewsStep(1)

SpecFilter == Init /\ [][NextFilter]_vars

\* blocks and custom feeds beside the filters row
NextFeed ==
    \/ register_user_api(101, PlainRegister)
    \/ \E req \in {q \in NewsRequests : q.source \in {"A", "B"}} :
          add_news_api(req, "approved")
    \/ \E req \in {q \in FilterRequests : q.tag = "tech" \/ q.source = "a"} :
          update_filter_api(101, req)
    \/ \E req \in {q \in BlockRequests : q.value = "ai"} : block_source_api(101, req)
    \/ \E name \in FeedNames, ff \in FeedFilters : create_custom_feed_api(101, name, ff)
    \/ \E f \in 1..MaxFeeds : switch_custom_feed_api(101, f)
    \/ GetNewsCall(1, 101, DefaultLimit, 0)
    \/ GetNewsStep(1)

SpecFeed == Init /\ [][NextFeed]_vars

\* views, the interaction log and the counters
NextActivity ==
    \/ \E t \in TelegramIds : register_user_api(t, PlainRegister)
    \/ \E req \in {q \in NewsRequests : q.source = "A"} : add_news_api(req, "approved")
    \/ \E t \in TelegramIds, l \in Limits : GetNewsCall(1, t, l, 0)
    \/ GetNewsStep(1)
    \/ \E r \in Reqs, t \in TelegramIds, i \in NewsIds, a \in LogActions :
          LogCall(r, t, i, a)
    \/ \E r \in Reqs : LogStep(r)

SpecActivity == Init /\ [][NextActivity]_vars

\* /log_user_activity alone, with the failures of its two writes
NextLog ==
    \/ register_user_api(101, PlainRegister)
    \/ \E req \in {q \in NewsRequests : q.source = "A"} : add_news_api(req, "approved")
    \/ \E r \in Reqs, i \in NewsIds, a \in {"view", "viewed"} : LogCall(r, 101, i, a)
    \/ \E r \in Reqs : LogStep(r)
    \/ \E r \in Reqs : LogFailStep(r)

SpecLog == Init /\ [][NextLog]_vars

\* POST /rate alone
NextRate ==
    \E t \in TelegramIds, n \in 1..MaxNews, v \in RateValues : save_rating_api(t, n, v)

SpecRate == Init /\ [][NextRate]_vars

\* invites: generation and concurrent acceptance, with a third user so that
\* two invited users can differ from the inviter
InviteUsers == TelegramIds \cup {103}

NextInvite ==
    \/ \E t \in InviteUsers : register_user_api(t, PlainRegister)
    \/ \E c \in InviteCodes : generate_invite_code_api(101, c)
    \/ \E r \in Reqs, c \in InviteCodes, t \in InviteUsers : AcceptCall(r, c, t)
    \/ \E r \in Reqs : AcceptStep(r)

SpecInvite == Init /\ [][NextInvite]_vars

\* POST /bookmarks/add by registered and unknown users
NextBookmark ==
    \/ \E t \in TelegramIds : register_user_api(t, PlainRegister)
    \/ \E t \in TelegramIds, n \in 1..MaxNews : add_bookmark_api(t, n)

SpecBookmark == Init /\ [][NextBookmark]_vars

\* POST /filters/update and the reset, for both users
NextFilterRow ==
    \/ \E t \in TelegramIds : register_user_api(t, PlainRegister)
    \/ \E t \in TelegramIds, req \in FilterRequests : update_filter_api(t, req)
    \/ \E t \in TelegramIds : reset_filters_api(t)

SpecFilterRow == Init /\ [][NextFilterRow]_vars

\* concurrent POST /custom_feeds/create calls
NextFeedRace ==
    \/ register_user_api(101, PlainRegister)
    \/ \E r \in Reqs, t \in TelegramIds, name \in CreateNames :
          FeedCall(r, t, name, [tags |-> {"ai"}, sources |-> {}, languages |-> {}])
    \/ \E r \in Reqs : FeedStep(r)

SpecFeedRace == Init /\ [][NextFeedRace]_vars

\* POST /custom_feeds/switch by the owner of a feed and by another user
NextSwitch ==
    \/ \E t \in TelegramIds : register_user_api(t, PlainRegister)
    \/ \E t \in TelegramIds :
          create_custom_feed_api(t, "F", [tags |-> {"ai"}, sources |-> {}, languages |-> {}])
    \/ \E t \in TelegramIds, f \in 1..(MaxFeeds + 1) : SwitchFeedCall(t, f)

SpecSwitch == Init /\ [][NextSwitch]_vars

\* calls on behalf of a telegram id that has no users row: only 101 registers
NextUnknown ==
    \/ register_user_api(101, PlainRegister)
    \/ \E v \in RateValues : save_rating_api(102, 1, v)
    \/ \E req \in {q \in BlockRequests : q.value = "ai"} : block_source_api(102, req)
    \/ generate_invite_code_api(101, "c1")
    \/ AcceptCall(1, "c1", 102)
    \/ AcceptStep(1)

SpecUnknown == Init /\ [][NextUnknown]_vars

\* the subscription endpoints
NextSubscription ==
    \/ \E t \in TelegramIds : register_user_api(t, PlainRegister)
    \/ \E t \in TelegramIds, f \in SubFrequencies : update_subscription_api(t, f)
    \/ \E t \in TelegramIds : unsubscribe_from_digest_api(t)

SpecSubscription == Init /\ [][NextSubscription]_vars

\* concurrent POST /users/register calls, with and without is_premium
NextRegister ==
    \/ \E r \in Reqs, t \in TelegramIds, p \in {{}, {TRUE}, {FALSE}} :
          RegCall(r, t, [PlainRegister EXCEPT !.is_premium = p])
    \/ \E r \in Reqs : RegStep(r)

SpecRegister == Init /\ [][NextRegister]_vars

\* comments and their moderation
NextComment ==
    \/ \E t \in TelegramIds : register_user_api(t, PlainRegister)
    \/ Tick
    \/ \E t \in TelegramIds, i \in 1..MaxNews : add_comment_api(t, i, "hi")
    \/ \E i \in 1..MaxComments, s \in {"approved", "rejected"} : ModerateComment(i, s)

SpecComment == Init /\ [][NextComment]_vars

\* the notifier over several cycles, with failing sends and failing writes
NextNotify ==
    \/ register_user_api(101, [PlainRegister EXCEPT !.auto_notifications = {TRUE}])
    \/ \E a \in {{}, {TRUE}} :
          register_user_api(102, [PlainRegister EXCEPT !.auto_notifications = a])
    \/ \E req \in {q \in NewsRequests : q.source # "B"} : add_news_api(req, "approved")
    \/ update_filter_api(101, [NoFilterFields EXCEPT !.content_type = "photo"])
    \/ NtfStep
    \/ NtfFailStep

SpecNotify == Init /\ [][NextNotify]_vars

\* notifier cycles over two users, every statement of the loop body may fail
NextIsolation ==
    \/ \E t \in TelegramIds :
          register_user_api(t, [PlainRegister EXCEPT !.auto_notifications = {TRUE}])
    \/ add_news_api(CHOOSE q \in NewsRequests : q.source # "B", "approved")
    \/ update_filter_api(101, [NoFilterFields EXCEPT !.content_type = "photo"])
    \/ NtfStep
    \/ NtfFailStep
    \/ NtfFiltersFail

SpecIsolation == Init /\ [][NextIsolation]_vars

\* the notifier while the application shuts down
NextShutdown ==
    \/ \E a \in {{}, {TRUE}} :
          register_user_api(101, [PlainRegister EXCEPT !.auto_notifications = a])
    \/ \E req \in {q \in NewsRequests : q.source # "B"} : add_news_api(req, "approved")
    \/ Tick
    \/ NtfStep
    \/ on_shutdown
    \/ OnShutdownDone

SpecShutdown == Init /\ [][NextShutdown]_vars

\* one /myfeed conversation
NextMyFeed ==
    \/ register_user_api(ChatUser, PlainRegister)
    \/ \E req \in NewsRequests : add_news_api(req, "approved")
    \/ update_filter_api(ChatUser, [NoFilterFields EXCEPT !.tag = "tech"])
    \/ my_feed_start
    \/ process_news_navigation
    \/ SendNewsItemFail

SpecMyFeed == Init /\ [][NextMyFeed]_vars

\* GET /news calls of one user, one after the other
NextGet ==
    \/ register_user_api(ChatUser, PlainRegister)
    \/ \E req \in NewsRequests : add_news_api(req, "approved")
    \/ \E l \in Limits, o \in Offsets : GetNewsCall(1, ChatUser, l, o)
    \/ GetNewsStep(1)

SpecGet == Init /\ [][NextGet]_vars

\* register with and without current_feed_id, feed creation and switching
NextOwner ==
    \/ \E t \in TelegramIds, f \in {{}, {1}} :
          register_user_api(t, [PlainRegister EXCEPT !.current_feed_id = f])
    \/ \E t \in TelegramIds, ff \in FeedFilters : create_custom_feed_api(t, "F", ff)
    \/ \E t \in TelegramIds, f \in 1..MaxFeeds + 1 : SwitchFeedCall(t, f)

SpecOwner == Init /\ [][NextOwner]_vars

\* invites accepted for a telegram id that may or may not be registered
NextAccept ==
    \/ \E t \in TelegramIds : register_user_api(t, PlainRegister)
    \/ \E c \in InviteCodes : generate_invite_code_api(101, c)
    \/ \E c \in InviteCodes : AcceptCall(1, c, 102)
    \/ AcceptStep(1)

SpecAccept == Init /\ [][NextAccept]_vars

\* the add-news and rewrite-headline conversations of the webhook bot
NextAddNews ==
    \/ \E t \in TelegramIds : register_user_api(t, PlainRegister)
    \/ \E req \in NewsRequests : add_news_api(req, "approved")
    \/ add_news_admin_start_handler
    \/ rewrite_headline_start_handler
    \/ \E req \in NewsRequests : TextMessage(req)

SpecAddNews == Init /\ [][NextAddNews]_vars

\* the email subscription menu of the bot
NextEmail ==
    \/ \E t \in TelegramIds : register_user_api(t, PlainRegister)
    \/ request_email_input_callback
    \/ \E text \in EmailTexts : process_email_input_handler(text)
    \/ unsubscribe_email_callback

SpecEmail == Init /\ [][NextEmail]_vars

\* presses of the safe-mode button, handled concurrently
NextToggle ==
    \/ \E t \in TelegramIds : register_user_api(t, PlainRegister)
    \/ \E r \in Reqs, t \in TelegramIds : ToggleCall(r, t)
    \/ \E r \in Reqs : ToggleStep(r)

SpecToggle == Init /\ [][NextToggle]_vars

\* ----------------------------------------------------------------- claims
\* the items the composed SELECT of GET /news hands to request r in this step
Returned(r) ==
    IF reqs[r].kind = "get_news" /\ reqs[r].pc = "query" /\ reqs'[r].pc = "mark"
    THEN Range(reqs'[r].page) ELSE {}

\* the item the notifier's SELECT picks in this step
NtfSelected ==
    IF ntf.pc = "query" /\ ntf'.pc = "send" THEN {ntf'.item} ELSE {}

\* C1: exactly-once-per-user visibility: over any number of GET /news calls of
\* a user, concurrent ones included, a news item is in at most one returned page
C1_ExactlyOncePerUser ==
    \A t \in TelegramIds : \A i \in 1..MaxNews : served[t][i] <= 1

\* C2: freshness: every item the resolver returns (GET /news and the
\* notifier's selection) has expires_at > now at query time
C2_Freshness ==
    [][/\ \A r \in Reqs : \A i \in Returned(r) : news[i].expires_at > now
       /\ \A i \in NtfSelected : news[i].expires_at > now]_vars

TagsAndTopics(n) == n.tags \cup n.ai_classified_topics

\* C3: block dominates filter: once the user has a block (tag, T), no item
\* whose tags or classified topics contain T is in a resolver result for the
\* user, whatever the filters row or the active custom feed includes
C3_BlockDominatesFilter ==
    [][\A r \in Reqs : \A i \in Returned(r) : \A b \in blocks :
          (b.user_id = reqs[r].user_id /\ b.block_type = "tag")
             => b.value \notin TagsAndTopics(news[i])]_vars

NSFWTags == {"18+", "NSFW"}

Unsafe(n) ==
    \/ n.tone \in {"negative", "anxious"}
    \/ TagsAndTopics(n) \cap NSFWTags # {}

\* C4: safe mode: for a user with safe_mode on, no item with tone
\* negative/anxious or with a tag in {"18+", "NSFW"} is returned, so the
\* result is a subset of the result with safe_mode off
C4_SafeModeSubset ==
    [][\A r \in Reqs : \A i \in Returned(r) :
          users[reqs[r].user_id].safe_mode => ~Unsafe(news[i])]_vars

\* C5: every returned item has moderation_status = approved and
\* is_duplicate = false; a rejected item is never returned
C5_ModerationGate ==
    [][\A r \in Reqs : \A i \in Returned(r) :
          /\ news[i].moderation_status = "approved"
          /\ ~news[i].is_duplicate]_vars

\* the custom feed's filters: OR within a kind, AND across the kinds present
MatchesFeed(ff, n) ==
    /\ ff.tags # {} => ff.tags \cap TagsAndTopics(n) # {}
    /\ ff.sources # {} => n.source \in ff.sources
    /\ ff.languages # {} => n.lang \in ff.languages

\* the user's active feed: the feed current_feed_id names, when the user owns it
ActiveFeed(t) ==
    {f \in custom_feeds :
        f.id = users[t].current_feed_id /\ f.user_id = users[t].id}

\* C6: custom feed overrides filter: with current_feed_id set, the resolver
\* applies the feed's filters instead of the filters row: every returned item
\* matches the feed, and a full first page holds every unseen item that does
C6_FeedOverridesFilter ==
    [][\A r \in Reqs :
          (reqs[r].kind = "get_news" /\ reqs[r].pc = "query" /\ reqs'[r].pc # "query")
          => \A f \in ActiveFeed(reqs[r].user_id) :
                /\ \A i \in Range(reqs'[r].page) : MatchesFeed(f.filters, news[i])
                /\ \A i \in NewsIds :
                      ( /\ MatchesFeed(f.filters, news[i])
                        /\ <<reqs[r].uid, i>> \notin views
                        /\ reqs[r].limit = DefaultLimit /\ reqs[r].offset = 0 )
                      => i \in Range(reqs'[r].page)]_vars

\* the filters row as the specification reads it: a null field constrains
\* nothing, the others are ANDed
SatisfiesFilter(f, n) ==
    /\ f.tag # NULL => f.tag \in TagsAndTopics(n)
    /\ f.category # NULL => f.category \in TagsAndTopics(n)
    /\ f.source # NULL => n.source = f.source
    /\ f.language # NULL => n.lang = f.language
    /\ f.country # NULL => n.country = f.country
    /\ f.content_type # NULL => n.media_type = f.content_type

\* C7: positive filter: without an active custom feed, every returned item
\* satisfies every non-null field of the user's filters row
C7_PositiveFilter ==
    [][\A r \in Reqs : \A i \in Returned(r) : \A f \in reqs[r].filt :
          users[reqs[r].user_id].current_feed_id = NoId
             => SatisfiesFilter(f, news[i])]_vars

\* published_at descending, ties by id descending
Before(i, j) ==
    \/ news[i].published_at > news[j].published_at
    \/ news[i].published_at = news[j].published_at /\ i > j

\* C8: a returned page is ordered by published_at descending with ties broken
\* by id descending, so the same state and (limit, offset) give one page
C8_StableOrder ==
    [][\A r \in Reqs :
          (reqs[r].kind = "get_news" /\ reqs[r].pc = "query" /\ reqs'[r].pc # "query")
          => /\ \A j, k \in DOMAIN reqs'[r].page :
                   j < k => Before(reqs'[r].page[j], reqs'[r].page[k])
             /\ Cardinality(ResolverPages(reqs[r].uid, reqs[r].filt,
                                          reqs[r].limit, reqs[r].offset)) = 1]_vars

ViewActions == {"view", "read_full"}

\* C9: after a 200 of /log_user_activity with action view or read_full a
\* user_news_views row exists for the pair, and no later resolver result of
\* the user holds the item
C9_LoggedViewIsSeen ==
    [][/\ \A e \in logged' :
             e[3] \in ViewActions => <<users'[e[1]].id, e[2]>> \in views'
       /\ \A r \in Reqs : \A i \in Returned(r) :
             \A a \in ViewActions : <<reqs[r].user_id, i, a>> \notin logged]_vars

\* the Interaction rows of a user with action view
ViewRows(uid) ==
    BagCardinality([e \in {x \in BagToSet(interactions) :
                              x.user_id = uid /\ x.action = "view"}
                       |-> interactions[e]])

Viewed(st, uid) == IF uid \in DOMAIN st THEN st[uid].viewed ELSE 0

\* a /log_user_activity call of the user is between its two writes
MidLog(uid) ==
    \E r \in Reqs : reqs[r].kind = "log_activity" /\ reqs[r].pc = "stats"
                    /\ reqs[r].uid = uid

\* C10: for every user, user_stats.viewed equals the number of Interaction
\* rows with action view (outside a log call's two writes), and no counter
\* ever decreases
C10_CounterLogAgreement ==
    [][/\ \A uid \in 1..(nextUserId' - 1) :
             ~MidLog(uid)' => Viewed(stats', uid) = ViewRows(uid)'
       /\ \A uid \in DOMAIN stats :
             /\ uid \in DOMAIN stats'
             /\ stats'[uid].viewed >= stats[uid].viewed
             /\ stats'[uid].saved >= stats[uid].saved
             /\ stats'[uid].reported >= stats[uid].reported]_vars

\* the Interaction rows of a user with the given action
ActionRows(uid, a) ==
    BagCardinality([e \in {x \in BagToSet(interactions) :
                              x.user_id = uid /\ x.action = a}
                       |-> interactions[e]])

Counter(st, uid, a) == IF uid \in DOMAIN st THEN st[uid][a] ELSE 0

\* C11: the log row and the counter increment of one /log_user_activity call
\* are written together or not at all: whenever no call of the user is
\* between its two writes, each counter equals the number of log rows of its
\* action, also after a write of a call has failed
C11_LogAndCounterAtomic ==
    \A uid \in 1..(nextUserId - 1) :
        ~MidLog(uid) =>
            \A a \in {"viewed", "saved", "reported"} :
                Counter(stats, uid, a) = ActionRows(uid, a)

\* C12: rating domain: after any sequence of POST /rate calls with arbitrary
\* integers, every persisted ratings row has its value in 1..5
C12_RatingDomain ==
    \A x \in ratings : x.value \in 1..5

\* a row is persisted after calls with values below and above the range
C12_Witness ==
    /\ ratings # {}
    /\ \E j, k \in DOMAIN responses :
          /\ responses[j].op = "rate" /\ responses[j].value < 1
          /\ responses[k].op = "rate" /\ responses[k].value > 5

\* C13: POST /rate with a value outside 1..5 is answered with status 400 and
\* leaves the ratings table as it was
C13_OutOfRangeIs400 ==
    /\ \A j \in DOMAIN responses :
          (responses[j].op = "rate" /\ responses[j].value \notin 1..5)
             => responses[j].status = 400
    /\ \A x \in ratings :
          \E j \in DOMAIN responses :
             /\ responses[j].op = "rate" /\ responses[j].value \in 1..5
             /\ responses[j].user_id = x.user_id
             /\ responses[j].news_id = x.news_id
             /\ responses[j].value = x.value

\* the valid POST /rate calls for the pair (u, n), as positions of the history
ValidRateCalls(u, n) ==
    {j \in DOMAIN responses :
        /\ responses[j].op = "rate" /\ responses[j].value \in 1..5
        /\ responses[j].user_id = u /\ responses[j].news_id = n}

LastOf(S) == CHOOSE j \in S : \A k \in S : k <= j

RatingRows(u, n) == {x \in ratings : x.user_id = u /\ x.news_id = n}

\* C14: rating is an upsert on (user, news): a pair has at most one row, its
\* value is that of the most recent valid call for the pair, and rating a
\* pair again with the value it has changes nothing
C14_RatingUpsert ==
    /\ \A u \in TelegramIds : \A n \in 1..MaxNews :
          /\ Cardinality(RatingRows(u, n)) <= 1
          /\ ValidRateCalls(u, n) = {} => RatingRows(u, n) = {}
          /\ ValidRateCalls(u, n) # {} =>
                RatingRows(u, n) =
                   {[user_id |-> u, news_id |-> n,
                     value |-> responses[LastOf(ValidRateCalls(u, n))].value]}
    /\ \A x \in ratings :
          UpsertRating(ratings, x.user_id, x.news_id, x.value) = ratings

\* a pair has been rated twice with different values and has a row
C14_Witness ==
    \E u \in TelegramIds : \E n \in 1..MaxNews :
       \E j, k \in ValidRateCalls(u, n) :
          /\ j < k
          /\ responses[j].value # responses[k].value
          /\ RatingRows(u, n) # {}

\* the invited users that POST /invite/accept answered 200 for the code
AcceptedBy(code) ==
    {responses[j].user_id : j \in {k \in DOMAIN responses :
        /\ responses[k].op = "accept" /\ responses[k].name = code
        /\ responses[k].status = 200}}

\* the registered users other than the inviter of invite row v that were
\* answered 200 for its code and have inviter_id set to its inviter
InvitedBy(v) ==
    {t \in AcceptedBy(v.invite_code) :
        /\ t \in DOMAIN users
        /\ users[t].id # v.inviter_user_id
        /\ users[t].inviter_id = v.inviter_user_id}

\* C15: invite atomicity: an invite code is accepted by at most one invited
\* user: of the POST /invite/accept calls with one code and different users,
\* sequential or interleaved, at most one is answered 200 with the user's
\* inviter_id set from the code
C15_InviteAcceptedOnce ==
    \A v \in invites : Cardinality(InvitedBy(v)) <= 1

\* the telegram_id of the users row with the internal id (NoId without it)
UserOfId(uid) ==
    IF \E t \in DOMAIN users : users[t].id = uid
    THEN CHOOSE t \in DOMAIN users : users[t].id = uid
    ELSE NoId

\* C16: self-referral is rejected: accepting a code as the user who generated
\* it is not answered 200, leaves the invite unaccepted, and no user's
\* inviter_id is ever the user itself
C16_NoSelfReferral ==
    /\ \A t \in DOMAIN users : users[t].inviter_id # users[t].id
    /\ \A v \in invites :
          /\ v.invited_user_id # v.inviter_user_id
          /\ UserOfId(v.inviter_user_id) \notin AcceptedBy(v.invite_code)

\* the rows of the invites table inv of the inviter with internal id uid
\* that have been accepted
AcceptedInvites(inv, uid) ==
    {v \in inv : v.inviter_user_id = uid /\ v.invited_user_id # NoId}

\* C17: a successful POST /invite/accept by a registered user other than
\* the inviter leaves the invited user with the
\* code's inviter as inviter_id, is_premium = true and premium_expires_at =
\* now + 7 days, and the inviter's level one higher per accepted invite; an
\* inviter_id that is set is never overwritten
C17_AcceptEffects ==
    [][/\ \A t \in DOMAIN users :
             users[t].inviter_id # NoId => users'[t].inviter_id = users[t].inviter_id
       /\ \A r \in Reqs :
             (reqs[r].kind = "accept_invite" /\ reqs[r].pc = "mark"
                /\ reqs'[r].pc = "idle"
                /\ reqs[r].user_id \in DOMAIN users
                /\ users[reqs[r].user_id].id # reqs[r].inviter)
             => /\ users'[reqs[r].user_id].inviter_id = reqs[r].inviter
                /\ users'[reqs[r].user_id].is_premium
                /\ users'[reqs[r].user_id].premium_expires_at = now + 7
                /\ \A u \in DOMAIN users' :
                      users'[u].id = reqs[r].inviter
                         => users'[u].level =
                            1 + Cardinality(AcceptedInvites(invites', users'[u].id))]_vars

\* the POST /bookmarks/add calls answered 200 for the pair (t, n)
BookmarkAdds(t, n) ==
    {j \in DOMAIN responses :
        /\ responses[j].op = "bookmark" /\ responses[j].status = 200
        /\ responses[j].user_id = t /\ responses[j].news_id = n}

BookmarkRows(t, n) ==
    CopiesIn([user_id |-> UserInternalId(t), news_id |-> n], bookmarks)

\* C18: POST /bookmarks/add is idempotent on the bookmark set: after the pair
\* (user, news) was added any number of times, once or more, there is
\* exactly one bookmarks row for it (and none before the first add)
C18_BookmarkIdempotent ==
    \A t \in TelegramIds : \A n \in 1..MaxNews :
        BookmarkRows(t, n) = IF BookmarkAdds(t, n) = {} THEN 0 ELSE 1

\* a pair has been added more than once
C18_Witness ==
    \E t \in TelegramIds : \E n \in 1..MaxNews :
        Cardinality(BookmarkAdds(t, n)) >= 2 /\ BookmarkRows(t, n) = 1

\* the value of a field in the user's filters rows of table fs
FieldValues(fs, uid, field) == {x[field] : x \in {y \in fs : y.user_id = uid}}

\* C19: POST /filters/update is idempotent and per-field: in every state and
\* for every request X of a registered user, applying X twice gives the table
\* that applying it once gives, a user never has more than one filters row,
\* the fields present in X get X's values and the fields absent from X keep
\* the values they had
C19_FilterUpdateIdempotent ==
    /\ \A uid \in 1..(nextUserId - 1) :
          Cardinality({x \in filters : x.user_id = uid}) <= 1
    /\ \A uid \in 1..(nextUserId - 1) :
          \A X \in FilterRequests \cup {NoFilterFields} :
             LET once == ApplyFilterRequest(filters, uid, X, 1)
             IN /\ ApplyFilterRequest(once, uid, X, 1) = once
                /\ \A k \in DOMAIN FilterFieldOrder :
                      LET field == FilterFieldOrder[k]
                      IN IF X[field] # NULL
                         THEN FieldValues(once, uid, field) = {X[field]}
                         ELSE \/ FieldValues(once, uid, field)
                                   = FieldValues(filters, uid, field)
                              \/ /\ FieldValues(filters, uid, field) = {}
                                 /\ FieldValues(once, uid, field) = {NULL}
                /\ \A x \in filters : x.user_id # uid => x \in once

\* a row holds the fields of two different requests: the later update kept
\* what the earlier one had set
C19_Witness ==
    \E x \in filters : x.tag = "tech" /\ x.source = "a" /\ x.content_type = NULL

\* the user already has a custom feed with exactly this name
HasFeedNamed(t, name) ==
    \E f \in custom_feeds : f.user_id = UserInternalId(t) /\ f.feed_name = name

\* C20: feed names are unique per user: a POST /custom_feeds/create that
\* finishes while the user has a feed of that name is answered 409 and creates
\* nothing, and in every state, also after concurrent creates with one
\* (user, feed_name), a user has at most one feed with a given name
C20_FeedNameUnique ==
    [][/\ \A r \in Reqs :
             ( /\ reqs[r].kind = "create_feed" /\ reqs'[r].pc = "idle"
               /\ HasFeedNamed(reqs[r].user_id, reqs[r].name) )
             => /\ responses'[Len(responses')].status = 409
                /\ custom_feeds' = custom_feeds
       /\ \A f, g \in custom_feeds' :
             (f.user_id = g.user_id /\ f.feed_name = g.feed_name) => f = g]_vars

\* the response sent in this step, as a set: empty when none was sent
Answered == IF Len(responses') = Len(responses) + 1
            THEN {responses'[Len(responses')]} ELSE {}

\* C21: POST /custom_feeds/switch by a registered user to a feed the user does
\* not own, or that does not exist, is answered 403 and leaves the users
\* table as it was; a successful switch sets the user's current_feed_id to
\* the feed and changes nothing else
C21_SwitchForbidden ==
    [][\A a \in Answered :
          (a.op = "switch" /\ a.user_id \in DOMAIN users) =>
             /\ a.status \in {200, 403}
             /\ (\A f \in custom_feeds :
                    f.id = a.value => f.user_id # users[a.user_id].id)
                   => (a.status = 403 /\ users' = users)
             /\ a.status = 200 =>
                   /\ users' = [users EXCEPT ![a.user_id].current_feed_id = a.value]
                   /\ UNCHANGED <<nextUserId, filters, custom_feeds, nextFeedId,
                                  blocks, news, views, stats, interactions,
                                  ratings, bookmarks, invites,
                                  subscriptions, comments, dupUsers, lifecycle, fsm>>]_vars

\* a user was refused another user's feed, and its owner switched to it
C21_Witness ==
    \E j, k \in DOMAIN responses :
       /\ responses[j].op = "switch" /\ responses[j].status = 403
       /\ \E f \in custom_feeds : f.id = responses[j].value
       /\ responses[k].op = "switch" /\ responses[k].status = 200
       /\ responses[k].value = responses[j].value
       /\ users[responses[j].user_id].current_feed_id = NoId

\* C22: an endpoint that requires a user answers 404 for a user_id without a
\* users row and writes nothing: every answer of POST /rate and POST
\* /invite/accept to such a user is 404, and no step adds a ratings or blocks
\* row for such a user or changes an invite on its behalf
C22_UnknownUser404 ==
    [][/\ \A a \in Answered :
             (a.op \in {"rate", "accept"} /\ a.user_id \notin DOMAIN users)
                => (a.status = 404 /\ invites' = invites)
       /\ \A x \in ratings' \ ratings : x.user_id \in DOMAIN users
       /\ \A b \in blocks' \ blocks : b.user_id \in DOMAIN users]_vars

\* C23: after a successful POST /subscriptions/update the user has exactly
\* one subscriptions row, with active = true and the frequency requested; the
\* frequency stored is always hourly or daily; only POST
\* /subscriptions/unsubscribe makes a row inactive
C23_SubscriptionRow ==
    [][/\ \A a \in Answered :
             (a.op = "sub_update" /\ a.status = 200) =>
                {x \in subscriptions' : x.user_id = users[a.user_id].id}
                   = {[user_id |-> users[a.user_id].id, frequency |-> a.name,
                       active |-> TRUE]}
       /\ \A x \in subscriptions' : x.frequency \in {"hourly", "daily"}
       /\ \A x \in subscriptions' \ subscriptions :
             ~x.active => \E a \in Answered : a.op = "unsubscribe"]_vars

\* the number of rows of the users table (us, dups) with the telegram_id
UserRowCount(us, dups, t) ==
    (IF t \in DOMAIN us THEN 1 ELSE 0)
       + Cardinality({d \in dups : d.telegram_id = t})

\* C24: POST /users/register is an upsert on the telegram id: every call,
\* first-time calls that run concurrently included, succeeds and leaves
\* exactly one users row for the id, and a call that carries is_premium =
\* true leaves the user with is_premium = true and premium_expires_at = now +
\* 30 days on the insert and on the update path
C24_RegisterUpsert ==
    [][/\ \A t \in TelegramIds : UserRowCount(users', dupUsers', t) <= 1
       /\ \A r \in Reqs :
             (reqs[r].kind = "register" /\ reqs'[r].pc = "idle") =>
                /\ \A a \in Answered : a.status = 200
                /\ UserRowCount(users', dupUsers', reqs[r].user_id) = 1
                /\ TRUE \in RegBody(r).is_premium =>
                      /\ users'[reqs[r].user_id].is_premium
                      /\ users'[reqs[r].user_id].premium_expires_at
                            = now + RegisterPremiumDays]_vars

\* the ids of the comments some answer of GET /comments/{news_id} holds
ReturnedComments(coms, news_id) ==
    {a[i].id : <<a, i>> \in
        {<<b, j>> \in get_comments_api(coms, news_id) \X (1..MaxComments + 1) :
            j \in DOMAIN b}}

\* C25: a comment added by POST /comments/add starts as pending; GET
\* /comments/{news_id} returns only approved comments of that news item, so
\* a new comment is in no answer until a moderation step approves it
C25_CommentModeration ==
    [][/\ \A c \in comments' :
             c.id \notin {d.id : d \in comments} =>
                /\ c.moderation_status = "pending"
                /\ \A i \in 1..MaxNews : c.id \notin ReturnedComments(comments', i)
       /\ \A i \in 1..MaxNews : \A id \in ReturnedComments(comments', i) :
             /\ \E c \in comments' :
                   c.id = id /\ c.news_id = i /\ c.moderation_status = "approved"
             /\ \/ id \in ReturnedComments(comments, i)
                \/ \E c \in comments :
                      /\ c.id = id /\ c.moderation_status = "pending"
                      /\ (comments \ {c}) \cup {[c EXCEPT !.moderation_status = "approved"]}
                            = comments']_vars

\* a news item with an approved comment in the answer and a pending one
\* left out
C25_Witness ==
    \E c, d \in comments :
        /\ c.news_id = d.news_id
        /\ c.moderation_status = "approved" /\ d.moderation_status = "pending"
        /\ ReturnedComments(comments, c.news_id) = {c.id}

\* C26: the notifier marks (user, item) viewed before it sends the item:
\* in no reachable state has the item been sent to the user without being
\* in the user's viewed set
C26_MarkBeforeSend ==
    \A t \in DOMAIN users : \A i \in NewsIds :
        sent[t][i] > 0 => <<users[t].id, i>> \in views

\* the notifier's send to the user at the head of the cycle has failed in
\* this step
SendFailed ==
    /\ ntf.pc = "send" /\ ntf' # ntf /\ sent' = sent

\* C27: a failed send leaves the item marked viewed: after the send of item
\* i to user u fails, (u, i) is in the viewed set, and no later cycle
\* selects i for u again
C27_FailedSendKeepsMark ==
    [][SendFailed => <<users[NtfUser].id, ntf.item>> \in views']_vars

\* C28: the notifier sends no item to the same user twice, over any number
\* of cycles, whether sends or view writes fail
C28_NoDoubleSend ==
    \A t \in DOMAIN users : \A i \in NewsIds : sent[t][i] <= 1

\* C29: in a cycle only users with auto_notifications on are sent to, a user
\* is sent one item at most, the item is unseen and satisfies the user's
\* filters row, and it is marked viewed once the send has succeeded
C29_NotifierCycle ==
    [][/\ sent' # sent =>
             /\ ntf.pc = "send" /\ ntf'.pc = "mark"
             /\ users[NtfUser].auto_notifications
             /\ \A j \in 2..Len(ntf.todo) : ntf.todo[j] # NtfUser
             /\ <<users[NtfUser].id, ntf.item>> \notin views
             /\ \A f \in ntf.filt : SatisfiesFilter(f, news[ntf.item])
       /\ (ntf.pc = "mark" /\ ntf' # ntf) =>
             <<users[NtfUser].id, ntf.item>> \in views']_vars

\* C30: once shutdown has been signalled the notifier task starts no new
\* cycle: it leaves its sleep for no further SELECT of the users to notify
C30_NoCycleAfterShutdown ==
    [][lifecycle # "running" => ~(ntf.pc = "sleep" /\ ntf'.pc = "filters")]_vars

\* C32: /myfeed from offset 0 with "next" pressed until the "no more news"
\* message shows every item the resolver returns for the user once and in
\* resolver order: when the message comes no item that passes the user's
\* filters is left unseen, and no item was shown twice
C32_MyFeedShowsAll ==
    [][(fsm.feed = "browsing" /\ fsm'.feed = "ended") =>
          /\ \A i \in NewsIds :
                FilterConditions(FilterRowSet(UserInternalId(ChatUser)), news[i])
                   => i \in Range(fsm'.shown)
          /\ \A j, k \in DOMAIN fsm'.shown :
                /\ j # k => fsm'.shown[j] # fsm'.shown[k]
                /\ j < k => news[fsm'.shown[j]].published_at
                               >= news[fsm'.shown[k]].published_at]_vars

RECURSIVE ServedSum(_, _)
\* the number of items in the pages GET /news has returned to user t
ServedSum(t, n) == IF n = 0 THEN 0 ELSE served[t][n] + ServedSum(t, n - 1)

C34_CurrentFeedOwned ==
    \A t \in DOMAIN users :
        \/ users[t].current_feed_id = NoId
        \/ OwnsFeed(users[t].id, users[t].current_feed_id)

\* C35: a POST /invite/accept that answers 200 consumes the code: after it
\* the invite row it took has a non-null invited_user_id, also when the
\* request's invited_user_id is not a registered user, so the code cannot
\* be accepted again
C35_AcceptConsumesCode ==
    [][\A r \in Reqs :
          (reqs[r].kind = "accept_invite" /\ \E a \in Answered : a.status = 200) =>
             \A v \in invites' :
                v.id = reqs[r].invite_id => v.invited_user_id # NoId]_vars

\* C36: in the add-news conversation a text message received in
\* waiting_for_title is handled by process_news_title_handler and moves the
\* conversation to waiting_for_content, not by the headline-rewrite handler
\* registered on the same state
C36_TitleGoesToAddNews ==
    [][( /\ fsm.flow = "add_news" /\ fsm.state = "waiting_for_title"
         /\ fsm' # fsm
         /\ fsm'.handler \notin {"add_news_admin_start_handler",
                                 "rewrite_headline_start_handler"} )
          => /\ fsm'.handler = "process_news_title_handler"
             /\ fsm'.state = "waiting_for_content"]_vars

\* the bookmarks rows of the user with internal id uid
UserBookmarkRows(uid) ==
    BagCardinality([e \in {x \in BagToSet(bookmarks) : x.user_id = uid}
                       |-> bookmarks[e]])

\* C37: the saved counter of a user's statistics equals the number of the
\* user's bookmarks rows; a repeated POST /bookmarks/add for a pair that is
\* already bookmarked changes neither the rows nor the counter
C37_SavedCountsBookmarks ==
    \A t \in DOMAIN users :
        Counter(stats, users[t].id, "saved") = UserBookmarkRows(users[t].id)

\* C38: when the bot's 'unsubscribe from email' callback reports success
\* (its POST /users/register with email = null answered 200), the user's
\* stored email is null
C38_UnsubscribeClearsEmail ==
    [][( /\ Len(responses') = Len(responses) + 1
         /\ responses'[Len(responses')].op = "unsubscribe_email"
         /\ responses'[Len(responses')].status = 200 )
          => users'[ChatUser].email = NULL]_vars

\* the presses of the safe-mode button by user t that were answered with
\* the success text
TogglePresses(t) ==
    {j \in DOMAIN responses :
        /\ responses[j].op = "toggle" /\ responses[j].status = 200
        /\ responses[j].user_id = t}

\* C39: the safe-mode toggle flips the stored value once per press: when no
\* press of a user is being handled, the user's safe_mode is the value at
\* registration (false) negated once for every press handled, whatever the
\* interleaving of the handlers' reads and writes
C39_ToggleFlipsOncePerPress ==
    \A t \in DOMAIN users :
        (\A r \in Reqs : ~(reqs[r].kind = "toggle" /\ reqs[r].user_id = t))
           => users[t].safe_mode = (Cardinality(TogglePresses(t)) % 2 = 1)

\* C40: per-user isolation in the notifier: whatever happens while one user
\* of a cycle is processed (the filters are loaded, the selection query
\* runs, the message is sent, the view is marked), the task stays with that
\* user or goes on with the users that are left in the cycle; a failure
\* never drops them
C40_NotifierIsolatesUsers ==
    [][( /\ ntf.pc \in {"filters", "query", "send", "mark", "stats"}
         /\ Len(ntf.todo) > 1
         /\ ntf' # ntf )
          => ntf'.todo \in {ntf.todo, Tail(ntf.todo)}]_vars

====
